---- MODULE Spec2Model ----
(***************************************************************************)
(* Model of one turn of the codex-sdk-go execution engine: the external    *)
(* process started by Exec.Run, its stdin-write and stderr-drain           *)
(* goroutines, ExecStream.Wait, the background reader goroutine of         *)
(* Thread.runStreamedInternal, StreamedTurn.Wait, and the two consumers of *)
(* a StreamedTurn: a direct caller of RunStreamed and the aggregation loop *)
(* of Thread.Run.  Around it: the steps of runStreamedInternal before the  *)
(* process is started and the calls a caller makes one after the other on  *)
(* a thread, the decoding and encoding of events and items, the argument   *)
(* vector Exec.Run builds, Exec.buildEnvironment, ExecStream.Close,       *)
(* normalizeInput, and the resolution of the codex binary by New.          *)
(***************************************************************************)
EXTENDS Integers, Sequences, FiniteSets, TLC

\* ---------------------------------------------------------------- bounds
MaxLines == 2
MaxStderr == 2
NumWaiters == 2
NumSetters == 2
NumGetters == 2
NumClosers == 2

\* ------------------------------------------------------------- constants
\* exit status os/exec reports for a process terminated by a signal
KilledCode == 0 - 1
\* exit status of a process that fails on its own
FailCode == 2

\* kinds of stdout line the process can write
LineKinds == {"blank", "known", "unknownType", "turnFailed", "malformed"}
\* lines the decoder accepts with a field left empty or set: thread.started
\* with thread_id "A", "B" or none, and an object without a "type" member
\* item lines: item.started with an agent message, item.completed with an
\* agent message, with a command execution, and without an item
ItemLineKinds == {"itemStarted", "itemCompletedMessage", "itemCompletedCommand",
                  "itemCompletedNoItem"}
IdentityLineKinds == {"threadStartedA", "threadStartedB", "threadStartedEmpty",
                      "noType"}
\* lines the aggregation of Thread.Run meets: item.completed with an item
\* of a type the SDK does not know, with an agent message and with an
\* item without a type, an event of an unknown type, and turn.completed
AggregateLineKinds == {"itemCompletedUnknown", "itemCompletedMessage",
                       "itemMissingType", "unknownType", "turnCompleted"}
\* lines that carry what a Turn reports: turn.completed with the usage
\* "u1", with the usage "u2" and without a usage, and item.completed with
\* an agent message
UsageLineKinds == {"turnCompleted", "turnCompletedLater", "turnCompletedBare",
                   "itemCompletedMessage"}
\* lines of a process whose output may end without a newline: a known
\* event, a blank line and a line that is not JSON
TailLineKinds == {"known", "blank", "malformed"}
\* lines of a turn that may fail: a known event and turn.failed
FailureLineKinds == {"known", "turnFailed"}
\* lines of the turns of one thread: thread.started with thread_id "A",
\* and a line that is not JSON
TurnsLineKinds == {"threadStartedA", "malformed"}
\* number of RunStreamed calls made on one thread
MaxTurns == 2
\* characters of the stderr text: white space and anything else
StderrChars == {"sp", "x"}

\* callers of StreamedTurn.Wait and of ExecStream.Wait
\* caller 1 of StreamedTurn.Wait is Thread.Run in "run" mode
TurnCallers == 1..NumWaiters
\* caller 1 of ExecStream.Wait is the background goroutine
ExecCallers == 1..NumWaiters
BgCaller == 1
\* callers of ExecStream.Close
Closers == 1..NumClosers
RunCaller == 1

\* tasks calling Thread.setID and Thread.ID() next to the stream
Setters == 1..NumSetters
Getters == 1..NumGetters
\* the background goroutine as a holder of Thread.mu, and no holder
BgTask == 0
NoTask == 0 - 1
\* thread identifiers: none, and two different ones
ThreadIDs == {"", "A", "B"}

VARIABLES
  mode,            \* "streamed": RunStreamed caller; "run": Thread.Run
  out,             \* stdout lines written by the process so far
  errOut,          \* stderr characters written by the process so far
  proc,            \* "running" | "exited"
  exitCode,        \* exit status once exited
  callerCancelled, \* the caller cancelled the context it passed in
  runCancelled,    \* Thread.Run called cancel() after turn.failed
  wr,              \* stdin-write goroutine: "pending" | "ok" | "fail"
  errBuf,          \* number of stderr characters copied into stderrBuf
  stderrDone,      \* stderrDone channel closed
  pipesClosed,     \* cmd.Wait closed the parent ends of the pipes
  execOnce,        \* ExecStream.waitOnce: "idle" | "running" | "done"
  execFn,          \* position inside Exec.Run's waitFn
  cmdErr,          \* result of cmd.Wait: "nil" | "exit" | "ctx"
  execWaitErr,     \* ExecStream.waitErr
  execCalls,       \* number of executions of Exec.Run's waitFn
  ew,              \* ExecStream.Wait callers: "idle" | "called" | "ret"
  ewRes,           \* value ExecStream.Wait returned to each caller
  pc,              \* position of the background goroutine
  rdIdx,           \* number of stdout lines the reader consumed
  pending,         \* decoded event waiting in the select
  runErr,          \* runErr of the background goroutine
  errCh,           \* buffered channel errCh
  eventsClosed,    \* number of times close(events) ran
  cleanups,        \* number of times schemaFile.Cleanup ran
  stdoutClosed,    \* the goroutine's deferred stdout.Close ran
  received,        \* events the consumer received from Events
  turnOnce,        \* StreamedTurn.waitOnce
  turnWaitErr,     \* StreamedTurn.waitErr
  turnCalls,       \* number of executions of StreamedTurn.waitFn
  tw,              \* StreamedTurn.Wait callers
  twRes,           \* value StreamedTurn.Wait returned to each caller
  runpc,           \* position of Thread.Run
  turnFailure,     \* Thread.Run recorded a turn.failed event
  runResult,       \* error returned by Thread.Run (NilErr: a Turn)
  items,           \* Thread.Run's items: line numbers of the appended items
  finalResponse,   \* Thread.Run's finalResponse: line number of the text, 0: ""
  usage,           \* Thread.Run's usage ("nil": none)
  turn,            \* the *Turn returned by Thread.Run
  startpc,         \* position of runStreamedInternal before the goroutine
  schemaDir,       \* the schema temp directory: "none" | "present" | "removed"
  startErr,        \* the error runStreamedInternal returned ("nil": none)
  turnNo,          \* number of RunStreamed calls made on the Thread
  argv,            \* ExecArgs and the commandArgs Exec.Run built from them
  codec,           \* a line, the event decoded from it and its re-encoding
  environ,         \* the inputs and the result of Exec.buildEnvironment
  norm,            \* an Input and the result of normalizeInput
  resolve,         \* the inputs and the result of newExec
  closer,          \* ExecStream.closeOnce, closeErr and the callers of Close
  tail,            \* the last line of stdout when it has no newline ("none")
  seedID,          \* Thread.id as set by StartThread ("") or ResumeThread
  idPtr,           \* Thread.id: the data word of the string
  idLen,           \* Thread.id: the length word of the string
  mu,              \* Thread.mu: w the writer holding it (NoTask: none), r readers
  setter,          \* tasks calling Thread.setID: position and argument
  getter           \* tasks calling Thread.ID(): position and the words read

procVars == <<out, errOut, proc, exitCode>>
ctxVars == <<callerCancelled, runCancelled>>
ioVars == <<wr, errBuf, stderrDone, pipesClosed>>
execVars == <<execOnce, execFn, cmdErr, execWaitErr, execCalls, ew, ewRes>>
bgVars == <<pc, rdIdx, pending, runErr, errCh, eventsClosed, cleanups, stdoutClosed>>
turnVars == <<turnOnce, turnWaitErr, turnCalls, tw, twRes>>
runVars == <<runpc, turnFailure, runResult>>
aggVars == <<items, finalResponse, usage, turn>>
startVars == <<startpc, schemaDir, startErr, turnNo, argv>>
labVars == <<codec, environ, norm, resolve>>
extVars == <<closer, tail>>
idVars == <<seedID, idPtr, idLen, mu, setter, getter>>

vars == <<mode, procVars, ctxVars, ioVars, execVars, bgVars, received, turnVars, runVars,
          aggVars, idVars, startVars, labVars, extVars>>

\* ------------------------------------------------------------ error values
MkErr(k, c, s, w, x) == [kind |-> k, code |-> c, stderr |-> s, wraps |-> w, extra |-> x]
NilErr == MkErr("nil", 0, <<>>, FALSE, "nil")
\* context.Canceled
Canceled == MkErr("canceled", 0, <<>>, TRUE, "nil")
\* &ErrExecFailed{ExitCode, Stderr, Err}
ErrExecFailed(c, s) == MkErr("execfailed", c, s, FALSE, "nil")
\* fmt.Errorf("write to codex stdin: %w", writeErr)
WriteErr == MkErr("write", 0, <<>>, FALSE, "nil")
\* fmt.Errorf("codex exec failed: %w", err)
ExecWrap(e) == MkErr("execwrap", 0, <<>>, e.wraps, "nil")
\* fmt.Errorf("parse codex event: %w", err)
ParseErr == MkErr("parse", 0, <<>>, FALSE, "nil")
\* errors.New(turnFailure.Message)
TurnFailedErr == MkErr("turnfailed", 0, <<>>, FALSE, "nil")
\* fmt.Errorf("%w; wait error: %v", runErr, waitErr): wraps runErr only
JoinedAsText(r, w) == [r EXCEPT !.kind = "joined", !.wraps = FALSE, !.extra = w.kind]
Joined(r, w) == [r EXCEPT !.extra = w.kind]

\* errors.Is(e, context.Canceled)
IsCanceled(e) == e.wraps
\* errors.Is(e, t): t is e itself or is reached through e's %w chain
ErrorsIs(e, t) ==
  \/ e = t
  \/ e.extra # "nil" /\ [e EXCEPT !.extra = "nil"] = t
  \/ t = Canceled /\ e.wraps

\* ctx.Err() != nil for the context the goroutine and the command hold
CtxDone == callerCancelled \/ runCancelled \/ runpc = "done"

\* bytes.TrimSpace / strings.TrimSpace on a text of StderrChars
RECURSIVE TrimLeft(_)
TrimLeft(s) == IF s # <<>> /\ Head(s) = "sp" THEN TrimLeft(Tail(s)) ELSE s
RECURSIVE TrimRight(_)
TrimRight(s) ==
  IF s # <<>> /\ s[Len(s)] = "sp" THEN TrimRight(SubSeq(s, 1, Len(s) - 1)) ELSE s
TrimSpace(s) == TrimRight(TrimLeft(s))

\* ----------------------------------------------------------------- events
NoEvent == [idx |-> 0, kind |-> "none"]
\* the event json.Unmarshal decodes from the idx-th line of stdout
Event(i, k) == [idx |-> i, kind |-> k]
\* len(bytes.TrimSpace(line)) > 0
NonBlank(k) == k # "blank"
\* ------------------------------------------------ decoding and encoding
\* a member that a JSON object does not have
Absent == "<absent>"

\* the EventType and ItemType constants
EventTypes == {"thread.started", "turn.started", "turn.completed", "turn.failed",
               "item.started", "item.updated", "item.completed", "error"}
ItemTypes == {"agent_message", "reasoning", "command_execution", "file_change",
              "mcp_tool_call", "web_search", "todo_list", "error"}

\* the JSON object of an item: its "type" and "text" members; and the
\* absence of the "item" member in a line
Payload(t, x) == [present |-> TRUE, type |-> t, text |-> x]
NoPayload == [present |-> FALSE, type |-> Absent, text |-> Absent]

\* the JSON object of a line
Object(t, id, u, e, m, it) ==
  [type |-> t, thread_id |-> id, usage |-> u, error |-> e, message |-> m,
   item |-> it]

\* json.Unmarshal leaves a string field "" and a pointer field nil when
\* the member is absent
StringOf(v) == IF v = Absent THEN "" ELSE v
PointerOf(v) == IF v = Absent THEN "nil" ELSE v

\* the Go type unmarshalThreadItem decodes a known type tag into
VariantOfFileChangeAsCommand(t) ==
  CASE t = "agent_message" -> "AgentMessageItem"
    [] t = "reasoning" -> "ReasoningItem"
    [] t = "command_execution" -> "CommandExecutionItem"
    [] t = "file_change" -> "CommandExecutionItem"
    [] t = "mcp_tool_call" -> "McpToolCallItem"
    [] t = "web_search" -> "WebSearchItem"
    [] t = "todo_list" -> "TodoListItem"
    [] t = "error" -> "ErrorItem"
VariantOf(t) ==
  CASE t = "agent_message" -> "AgentMessageItem"
    [] t = "reasoning" -> "ReasoningItem"
    [] t = "command_execution" -> "CommandExecutionItem"
    [] t = "file_change" -> "FileChangeItem"
    [] t = "mcp_tool_call" -> "McpToolCallItem"
    [] t = "web_search" -> "WebSearchItem"
    [] t = "todo_list" -> "TodoListItem"
    [] t = "error" -> "ErrorItem"

\* a nil ThreadItem, an item of a known Go type, and an UnknownItem
NilItem == [variant |-> "nil", ItemType |-> "", Text |-> "", Raw |-> NoPayload]
KnownItem(v, x) == [variant |-> v, ItemType |-> "", Text |-> x, Raw |-> NoPayload]
UnknownItem(t, raw) == [variant |-> "UnknownItem", ItemType |-> t, Text |-> "", Raw |-> raw]

\* the itemType() method of each Go type
itemType(i) ==
  CASE i.variant = "AgentMessageItem" -> "agent_message"
    [] i.variant = "ReasoningItem" -> "reasoning"
    [] i.variant = "CommandExecutionItem" -> "command_execution"
    [] i.variant = "FileChangeItem" -> "file_change"
    [] i.variant = "McpToolCallItem" -> "mcp_tool_call"
    [] i.variant = "WebSearchItem" -> "web_search"
    [] i.variant = "TodoListItem" -> "todo_list"
    [] i.variant = "ErrorItem" -> "error"
    [] i.variant = "UnknownItem" -> i.ItemType
    [] OTHER -> "nil"

\* unmarshalThreadItem: the switch on discriminator.Type
unmarshalThreadItemStrict(p) ==
  IF StringOf(p.type) \in ItemTypes
    THEN [err |-> "nil", item |-> KnownItem(VariantOf(p.type), StringOf(p.text))]
  ELSE IF StringOf(p.type) = ""
    THEN [err |-> "thread item missing type discriminator", item |-> NilItem]
  ELSE [err |-> "unknown thread item type", item |-> NilItem]
unmarshalThreadItem(p) ==
  IF StringOf(p.type) \in ItemTypes
    THEN [err |-> "nil", item |-> KnownItem(VariantOf(p.type), StringOf(p.text))]
  ELSE IF StringOf(p.type) = ""
    THEN [err |-> "thread item missing type discriminator", item |-> NilItem]
  ELSE [err |-> "nil", item |-> UnknownItem(p.type, p)]

\* a ThreadEvent, and what the caller of a failed UnmarshalJSON holds
ThreadEvent(t, id, u, e, m, it, raw) ==
  [err |-> "nil", Type |-> t, ThreadID |-> id, Usage |-> u, Error |-> e,
   Message |-> m, Item |-> it, rawItem |-> raw]
NoThreadEvent(err) ==
  [err |-> err, Type |-> "", ThreadID |-> "", Usage |-> "nil", Error |-> "nil",
   Message |-> "", Item |-> NilItem, rawItem |-> NoPayload]

\* ThreadEvent.UnmarshalJSON of a line that is a JSON object
UnmarshalJSONByKind(l) ==
  LET it == IF l.item.present THEN unmarshalThreadItem(l.item)
                              ELSE [err |-> "nil", item |-> NilItem]
      t == StringOf(l.type)
  IN IF it.err # "nil"
       THEN NoThreadEvent("decode thread item")
       ELSE ThreadEvent(t,
              IF t = "thread.started" THEN StringOf(l.thread_id) ELSE "",
              IF t = "turn.completed" THEN PointerOf(l.usage) ELSE "nil",
              IF t = "turn.failed" THEN PointerOf(l.error) ELSE "nil",
              IF t = "error" THEN StringOf(l.message) ELSE "",
              IF t \in {"item.started", "item.updated", "item.completed"}
                THEN it.item ELSE NilItem,
              l.item)
UnmarshalJSON(l) ==
  LET it == IF l.item.present THEN unmarshalThreadItem(l.item)
                              ELSE [err |-> "nil", item |-> NilItem]
  IN IF it.err # "nil"
       THEN NoThreadEvent("decode thread item")
       ELSE ThreadEvent(StringOf(l.type), StringOf(l.thread_id), PointerOf(l.usage),
                        PointerOf(l.error), StringOf(l.message), it.item, l.item)

\* json.Marshal of a ThreadEvent by its struct tags: omitempty drops an
\* empty string and a nil pointer, Item is tagged "-" and rawItem is not
\* exported
OmitEmpty(v) == IF v = "" \/ v = "nil" THEN Absent ELSE v
Marshal(e) ==
  Object(e.Type, OmitEmpty(e.ThreadID), OmitEmpty(e.Usage), OmitEmpty(e.Error),
         OmitEmpty(e.Message), NoPayload)

\* the lines the decoder is applied to
Lines ==
  {Object(t, id, u, e, m, it) :
     t \in EventTypes \cup {"unknown.type", "", Absent},
     id \in {Absent, "", "A"}, u \in {Absent, "u1"}, e \in {Absent, "boom"},
     m \in {Absent, "m1"},
     it \in {NoPayload} \cup
            {Payload(pt, x) : pt \in ItemTypes \cup {"future_type", "", Absent},
                              x \in {Absent, "hi"}}}

\* ------------------------------------------------- the kinds of lines
\* the JSON object a line of each kind holds (a blank line and a line that
\* is not JSON hold none)
JSONLine(k) ==
  CASE k = "unknownType" -> Object("unknown.type", Absent, Absent, Absent, Absent, NoPayload)
    [] k = "noType" -> Object(Absent, Absent, Absent, Absent, Absent, NoPayload)
    [] k = "turnFailed" -> Object("turn.failed", Absent, Absent, "boom", Absent, NoPayload)
    [] k = "turnCompleted" -> Object("turn.completed", Absent, "u1", Absent, Absent, NoPayload)
    [] k = "turnCompletedLater" ->
         Object("turn.completed", Absent, "u2", Absent, Absent, NoPayload)
    [] k = "turnCompletedBare" ->
         Object("turn.completed", Absent, Absent, Absent, Absent, NoPayload)
    [] k = "threadStartedA" -> Object("thread.started", "A", Absent, Absent, Absent, NoPayload)
    [] k = "threadStartedB" -> Object("thread.started", "B", Absent, Absent, Absent, NoPayload)
    [] k = "threadStartedEmpty" ->
         Object("thread.started", Absent, Absent, Absent, Absent, NoPayload)
    [] k = "itemStarted" ->
         Object("item.started", Absent, Absent, Absent, Absent,
                Payload("agent_message", "hi"))
    [] k = "itemCompletedMessage" ->
         Object("item.completed", Absent, Absent, Absent, Absent,
                Payload("agent_message", "hi"))
    [] k = "itemCompletedCommand" ->
         Object("item.completed", Absent, Absent, Absent, Absent,
                Payload("command_execution", Absent))
    [] k = "itemCompletedUnknown" ->
         Object("item.completed", Absent, Absent, Absent, Absent,
                Payload("future_type", "hi"))
    [] k = "itemMissingType" ->
         Object("item.completed", Absent, Absent, Absent, Absent,
                Payload(Absent, "hi"))
    [] k = "itemCompletedNoItem" ->
         Object("item.completed", Absent, Absent, Absent, Absent, NoPayload)
    [] OTHER -> Object("turn.started", Absent, Absent, Absent, Absent, NoPayload)

\* the event json.Unmarshal gives for a line of kind k that is JSON
Decoded(k) == UnmarshalJSON(JSONLine(k))

\* json.Unmarshal(trimmed, &event) succeeds
DecodesKnownOnly(k) == k \notin {"malformed", "unknownType"}
DecodesAnything(k) == TRUE
DecodesTypedOnly(k) == k \notin {"malformed", "noType"}
Decodes(k) == k # "malformed" /\ Decoded(k).err = "nil"

\* event.Type == EventItemCompleted
IsItemCompletedOrStarted(k) ==
  k \in {"itemCompletedMessage", "itemCompletedCommand", "itemCompletedNoItem",
         "itemStarted"}
IsItemCompleted(k) == Decoded(k).Type = "item.completed"

\* event.Type == EventTurnCompleted, and its event.Usage
IsTurnCompletedByDefault(k) == Decoded(k).Type \notin {"item.completed", "turn.failed"}
IsTurnCompleted(k) == Decoded(k).Type = "turn.completed"
UsageOf(k) == Decoded(k).Usage

\* the type of event.Item ("nil": the line has no item)
ItemOf(k) == itemType(Decoded(k).Item)

\* a nil *Turn, and &Turn{Items: items, FinalResponse: finalResponse}
NoTurn == [nil |-> TRUE, items |-> <<>>, finalResponse |-> 0, usage |-> "nil"]
MkTurn(its, fr, us) ==
  [nil |-> FALSE, items |-> its, finalResponse |-> fr, usage |-> us]

\* no Exec.Run call, no decoding and no buildEnvironment call was made
NoArgv == [built |-> FALSE]
NoCodec == [step |-> "none"]
NoEnviron == [built |-> FALSE]
NoNorm == [done |-> FALSE]
NoResolve == [done |-> FALSE]

\* --------------------------------------------------- the argument vector
\* a *bool option: nil, or a pointer to a value
NilBool == [nil |-> TRUE, val |-> FALSE]
BoolPtr(b) == [nil |-> FALSE, val |-> b]

\* fmt.Sprintf with %t, and with a quoted %s
FormatBool(b) == IF b THEN "true" ELSE "false"
Quoted(key, v) == key \o "=\"" \o v \o "\""

\* if v != "" { commandArgs = append(commandArgs, name, v) }
Flag(name, v) == IF v # "" THEN <<name, v>> ELSE <<>>

\* for _, v := range vs { if v != "" { append(name, v) } }
RECURSIVE Repeated(_, _)
Repeated(name, vs) ==
  IF vs = <<>> THEN <<>> ELSE Flag(name, Head(vs)) \o Repeated(name, Tail(vs))

\* if v != "" { append("--config", key="v") }
Config(key, v) == IF v # "" THEN <<"--config", Quoted(key, v)>> ELSE <<>>

\* if p != nil { append("--config", key=*p) }
ToggleOnlyTrue(key, p) ==
  IF ~p.nil /\ p.val THEN <<"--config", key \o "=" \o FormatBool(p.val)>> ELSE <<>>
Toggle(key, p) ==
  IF ~p.nil THEN <<"--config", key \o "=" \o FormatBool(p.val)>> ELSE <<>>

\* if args.ThreadID != "" { append("resume", args.ThreadID) }
ResumeAlways(id) == <<"resume", id>>
Resume(id) == IF id # "" THEN <<"resume", id>> ELSE <<>>

\* the commandArgs Exec.Run builds from its ExecArgs
CommandArgs(args) ==
  <<"exec", "--experimental-json">>
  \o Flag("--model", args.Model)
  \o Flag("--sandbox", args.SandboxMode)
  \o Flag("--cd", args.WorkingDirectory)
  \o Repeated("--add-dir", args.AdditionalDirectories)
  \o (IF args.SkipGitRepoCheck THEN <<"--skip-git-repo-check">> ELSE <<>>)
  \o Flag("--output-schema", args.OutputSchemaFile)
  \o Config("model_reasoning_effort", args.ModelReasoningEffort)
  \o Toggle("sandbox_workspace_write.network_access", args.NetworkAccessEnabled)
  \o Toggle("features.web_search_request", args.WebSearchEnabled)
  \o Config("approval_policy", args.ApprovalPolicy)
  \o Repeated("--image", args.Images)
  \o Resume(args.ThreadID)

\* the ExecArgs the argument vector is built from
ExecArgsSet ==
  [Model : {"", "gpt"}, SandboxMode : {"", "read-only"},
   WorkingDirectory : {"", "/w"},
   AdditionalDirectories : {<<>>, <<"/d1">>, <<"", "/d2">>, <<"/d1", "", "/d2">>},
   SkipGitRepoCheck : BOOLEAN, OutputSchemaFile : {"", "/tmp/schema.json"},
   ModelReasoningEffort : {"", "high"},
   NetworkAccessEnabled : {NilBool, BoolPtr(TRUE), BoolPtr(FALSE)},
   WebSearchEnabled : {NilBool, BoolPtr(TRUE), BoolPtr(FALSE)},
   ApprovalPolicy : {"", "never"},
   Images : {<<>>, <<"/i1">>, <<"", "/i1">>},
   ThreadID : {"", "A"}]

\* ------------------------------------------------- the process environment
internalOriginatorEnv == "CODEX_INTERNAL_ORIGINATOR_OVERRIDE"
goSDKOriginator == "codex_sdk_go"

\* the variable names of the environments considered, in the byte order
\* sort.Strings gives their "name=value" entries
EnvKeys == <<"CODEX_API_KEY", "CODEX_INTERNAL_ORIGINATOR_OVERRIDE",
             "OPENAI_BASE_URL", "PATH">>
EnvNames == {EnvKeys[i] : i \in 1..Len(EnvKeys)}

\* make(map[string]string), and a nil map
EmptyMap == [k \in EnvNames |-> Absent]
NilMap == [nil |-> TRUE, m |-> EmptyMap]
MapOf(m) == [nil |-> FALSE, m |-> m]

\* for _, kv := range os.Environ(): an entry with a '=' is stored under
\* its name, a later entry replacing an earlier one of the same name
RECURSIVE ParseEnviron(_, _)
ParseEnviron(kvs, m) ==
  IF kvs = <<>> THEN m
  ELSE ParseEnviron(Tail(kvs),
         IF Head(kvs).eq THEN [m EXCEPT ![Head(kvs).key] = Head(kvs).val] ELSE m)

\* value, ok := envMap[internalOriginatorEnv]; !ok || value == ""
NeedsOriginatorWhenAbsent(m) == m[internalOriginatorEnv] = Absent
NeedsOriginator(m) ==
  m[internalOriginatorEnv] = Absent \/ m[internalOriginatorEnv] = ""

\* if value != "" { envMap[name] = value }
OverrideNever(m, name, value) == m
Override(m, name, value) == IF value # "" THEN [m EXCEPT ![name] = value] ELSE m

\* env = append(env, k+"="+v) for every entry, then sort.Strings(env)
RECURSIVE SortedEntries(_, _)
SortedEntries(m, i) ==
  IF i > Len(EnvKeys) THEN <<>>
  ELSE (IF m[EnvKeys[i]] # Absent THEN <<EnvKeys[i] \o "=" \o m[EnvKeys[i]]>> ELSE <<>>)
       \o SortedEntries(m, i + 1)

\* Exec.buildEnvironment with e.env = custom and os.Environ() = host
buildEnvironment(custom, host, baseURL, apiKey) ==
  LET m0 == IF ~custom.nil THEN custom.m ELSE ParseEnviron(host, EmptyMap)
      m1 == IF NeedsOriginator(m0)
              THEN [m0 EXCEPT ![internalOriginatorEnv] = goSDKOriginator] ELSE m0
      m2 == Override(m1, "OPENAI_BASE_URL", baseURL)
      m3 == Override(m2, "CODEX_API_KEY", apiKey)
  IN SortedEntries(m3, 1)

\* the custom maps and the host environments considered
CustomMaps ==
  {NilMap} \cup
  {MapOf([k \in EnvNames |->
            CASE k = internalOriginatorEnv -> o
              [] k = "OPENAI_BASE_URL" -> u
              [] k = "CODEX_API_KEY" -> a
              [] OTHER -> q]) :
     o \in {Absent, "", "custom_originator"}, u \in {Absent, "http://custom"},
     a \in {Absent, "custom-key"}, q \in {Absent, "/custom/bin"}}
HostEntry(k, v) == IF v = Absent THEN <<>> ELSE <<[key |-> k, val |-> v, eq |-> TRUE]>>
HostEnvirons ==
  {HostEntry("PATH", "/usr/bin") \o HostEntry(internalOriginatorEnv, o)
     \o <<[key |-> "", val |-> "", eq |-> FALSE]>>
     \o HostEntry("OPENAI_BASE_URL", u) \o HostEntry("CODEX_API_KEY", a) :
     o \in {Absent, "", "host_originator"}, u \in {Absent, "http://host"},
     a \in {Absent, "host-key"}}

\* an ExecStream on which Close was not called: closeOnce, closeErr, the
\* number of stdout.Close() calls made, and each caller's position and
\* result
\* ---------------------------------------------------------- normalizeInput
\* the most parts of a composed input
MaxParts == 2

InputText == "text"
InputLocalImage == "local_image"

\* TextPart, ImagePart and the UserInput literals of the package's tests
TextPart(text) == [Type |-> InputText, Text |-> text, Path |-> ""]
ImagePart(path) == [Type |-> InputLocalImage, Text |-> "", Path |-> path]
UserInputs ==
  {TextPart(t) : t \in {"", "a", "b"}}
    \cup {ImagePart(q) : q \in {"", "x.png", "y.png"}}
    \cup {[Type |-> "", Text |-> "a", Path |-> "x.png"],
          [Type |-> "audio", Text |-> "a", Path |-> "x.png"]}

\* Text(prompt) and Compose(parts...)
Text(prompt) == [prompt |-> prompt, parts |-> <<>>]
Compose(parts) == [prompt |-> "", parts |-> parts]
PartSeqs == UNION {[1..n -> UserInputs] : n \in 0..MaxParts}
Inputs == {Text(q) : q \in {"", "hello"}} \cup {Compose(ps) : ps \in PartSeqs}

\* strings.Join(elems, sep)
RECURSIVE JoinFrom(_, _, _)
JoinFrom(elems, sep, i) ==
  IF i > Len(elems) THEN "" ELSE sep \o elems[i] \o JoinFrom(elems, sep, i + 1)
Join(elems, sep) ==
  IF elems = <<>> THEN "" ELSE elems[1] \o JoinFrom(elems, sep, 2)

\* &ErrInvalidInput{Field, Value, Reason}; idx is the part index that
\* the Reason names (the parts are counted from 0 in the source)
ErrInvalidInput(field, value, idx, what) ==
  [Field |-> field, Value |-> value, idx |-> idx, Reason |-> what]
NoError == [Field |-> "", Value |-> "", idx |-> 0 - 1, Reason |-> "nil"]

NormResult(prompt, images, err) == [prompt |-> prompt, images |-> images, err |-> err]

\* return "", nil, &ErrInvalidInput{...}: what was collected is dropped
RejectedKeepingPartial(promptParts, images, err) ==
  NormResult(Join(promptParts, "\n\n"), images, err)
Rejected(promptParts, images, err) == NormResult("", <<>>, err)

\* the switch on part.Type in the range loop, applied to the part at
\* idx with the promptParts and images collected before it
RECURSIVE NormalizeParts(_, _, _, _)
NormalizeParts(parts, idx, promptParts, images) ==
  IF idx >= Len(parts) THEN NormResult(Join(promptParts, "\n\n"), images, NoError)
  ELSE LET part == parts[idx + 1] IN
    CASE part.Type = InputText ->
           NormalizeParts(parts, idx + 1, Append(promptParts, part.Text), images)
      [] part.Type = InputLocalImage ->
           IF part.Path = ""
             THEN Rejected(promptParts, images,
                           ErrInvalidInput("image path", "", idx, "local image path must be set"))
             ELSE NormalizeParts(parts, idx + 1, promptParts, Append(images, part.Path))
      [] part.Type = "" ->
           Rejected(promptParts, images,
                    ErrInvalidInput("input type", "", idx, "type must be set"))
      [] OTHER ->
           Rejected(promptParts, images,
                    ErrInvalidInput("input type", part.Type, idx, "unsupported type"))

normalizeInput(input) ==
  IF Len(input.parts) = 0 THEN NormResult(input.prompt, <<>>, NoError)
  ELSE NormalizeParts(input.parts, 0,
                      IF input.prompt # "" THEN <<input.prompt>> ELSE <<>>, <<>>)

\* ------------------------------------------------- newExec, findCodexPath
\* what the resolution reads from the host: runtime.GOOS and GOARCH,
\* whether runtime.Caller(0) names the source file, what os.Stat finds
\* at the bundled candidate, and what exec.LookPath("codex") finds
\* ("" when it fails)
Hosts ==
  [goos : {"linux", "android", "darwin", "windows", "freebsd"},
   goarch : {"amd64", "arm64", "386"},
   callerOK : BOOLEAN,
   stat : {"file", "dir", "missing"},
   lookPath : {"", "/usr/bin/codex"}]
PathOverrides == {"", "/opt/codex", "bin/codex"}

resolveTargetTriple(goos, goarch) ==
  CASE goos \in {"linux", "android"} /\ goarch = "amd64" -> "x86_64-unknown-linux-musl"
    [] goos \in {"linux", "android"} /\ goarch = "arm64" -> "aarch64-unknown-linux-musl"
    [] goos = "darwin" /\ goarch = "amd64" -> "x86_64-apple-darwin"
    [] goos = "darwin" /\ goarch = "arm64" -> "aarch64-apple-darwin"
    [] goos = "windows" /\ goarch = "amd64" -> "x86_64-pc-windows-msvc"
    [] goos = "windows" /\ goarch = "arm64" -> "aarch64-pc-windows-msvc"
    [] OTHER -> ""

\* filepath.Join(root, "vendor", targetTriple, "codex", binaryName)
Candidate(host) ==
  "sdk/vendor/" \o resolveTargetTriple(host.goos, host.goarch) \o "/codex/"
    \o (IF host.goos = "windows" THEN "codex.exe" ELSE "codex")

bundledCodexPath(host) ==
  IF resolveTargetTriple(host.goos, host.goarch) = "" THEN ""
  ELSE IF ~host.callerOK THEN ""
  ELSE IF host.stat = "file" THEN Candidate(host)
  ELSE ""

Resolved(path) == [path |-> path, err |-> "nil"]
ErrCodexNotFound == [path |-> "", err |-> "codex binary not found in PATH or bundled location"]

findCodexPathLookupFirst(host) ==
  IF host.lookPath # "" THEN Resolved(host.lookPath)
  ELSE IF bundledCodexPath(host) # "" THEN Resolved(bundledCodexPath(host))
  ELSE ErrCodexNotFound
findCodexPath(host) ==
  IF bundledCodexPath(host) # "" THEN Resolved(bundledCodexPath(host))
  ELSE IF host.lookPath = "" THEN ErrCodexNotFound
  ELSE Resolved(host.lookPath)

\* newExec: the *Exec (its path) or nil, and the error
NilExec == [isNil |-> TRUE, path |-> ""]
newExec(pathOverride, host) ==
  IF pathOverride = ""
    THEN LET found == findCodexPath(host) IN
         IF found.err # "nil" THEN [exec |-> NilExec, err |-> found.err]
         ELSE [exec |-> [isNil |-> FALSE, path |-> found.path], err |-> "nil"]
    ELSE [exec |-> [isNil |-> FALSE, path |-> pathOverride], err |-> "nil"]

\* New: the *Codex (nil, or the client holding the Exec) and the error
NilCodex == [isNil |-> TRUE, exec |-> NilExec]
New(codexPath, host) ==
  LET made == newExec(codexPath, host) IN
  IF made.err # "nil" THEN [client |-> NilCodex, err |-> made.err]
  ELSE [client |-> [isNil |-> FALSE, exec |-> made.exec], err |-> "nil"]

NoCloser ==
  [once |-> "idle", err |-> "nil", calls |-> 0,
   pc |-> [c \in Closers |-> "idle"], res |-> [c \in Closers |-> "nil"]]

\* ------------------------------------------------------------------- Init
\* a Thread made with one of the identities seeds; running: its
\* RunStreamed call has started the process and the goroutine
ThreadState(m, seeds, running) ==
  /\ mode = m
  /\ seedID \in seeds /\ idPtr = seedID /\ idLen = seedID
  /\ mu = [w |-> NoTask, r |-> 0]
  /\ setter = [t \in Setters |-> [pc |-> "idle", val |-> ""]]
  /\ getter = [t \in Getters |-> [pc |-> "idle", ptr |-> "", len |-> ""]]
  /\ items = <<>> /\ finalResponse = 0 /\ usage = "nil" /\ turn = NoTurn
  /\ startpc = (IF running THEN "started" ELSE "idle")
  /\ schemaDir = "none" /\ startErr = "nil"
  /\ turnNo = (IF running THEN 1 ELSE 0)
  /\ out = <<>> /\ errOut = <<>> /\ proc = (IF running THEN "running" ELSE "notStarted") /\ exitCode = 0
  /\ callerCancelled = FALSE /\ runCancelled = FALSE
  /\ wr = "pending" /\ errBuf = 0 /\ stderrDone = FALSE /\ pipesClosed = FALSE
  /\ execOnce = "idle" /\ execFn = "idle" /\ cmdErr = "nil"
  /\ execWaitErr = NilErr /\ execCalls = 0
  /\ ew = [c \in ExecCallers |-> "idle"]
  /\ ewRes = [c \in ExecCallers |-> NilErr]
  /\ pc = (IF running THEN "check" ELSE "none") /\ rdIdx = 0 /\ pending = NoEvent /\ runErr = NilErr
  /\ errCh = <<>> /\ eventsClosed = 0 /\ cleanups = 0 /\ stdoutClosed = FALSE
  /\ received = <<>>
  /\ closer = NoCloser /\ tail = "none"
  /\ turnOnce = "idle" /\ turnWaitErr = NilErr /\ turnCalls = 0
  /\ tw = [c \in TurnCallers |-> "idle"]
  /\ twRes = [c \in TurnCallers |-> NilErr]
  /\ runpc = IF mode = "run" /\ running THEN "loop" ELSE "none"
  /\ turnFailure = FALSE /\ runResult = NilErr

\* the state after runStreamedInternal returned the StreamedTurn
InitSeed(m, seeds) ==
  /\ ThreadState(m, seeds, TRUE)
  /\ argv = NoArgv /\ codec = NoCodec /\ environ = NoEnviron
  /\ norm = NoNorm /\ resolve = NoResolve

\* a line is drawn; it is decoded; the event is encoded; the encoding is
\* decoded again
CodecInit ==
  /\ ThreadState("streamed", {""}, FALSE)
  /\ argv = NoArgv /\ environ = NoEnviron
  /\ norm = NoNorm /\ resolve = NoResolve
  /\ codec \in {[step |-> "line", line |-> l] : l \in Lines}

CodecDecode ==
  /\ codec.step = "line"
  /\ codec' = [step |-> "event", line |-> codec.line,
               event |-> UnmarshalJSON(codec.line)]
  /\ UNCHANGED <<mode, procVars, ctxVars, ioVars, execVars, bgVars, received, turnVars,
                 runVars, aggVars, idVars, startVars, environ, norm, resolve,
                 extVars>>

CodecEncode ==
  /\ codec.step = "event" /\ codec.event.err = "nil"
  /\ codec' = [step |-> "data", line |-> codec.line, event |-> codec.event,
               data |-> Marshal(codec.event)]
  /\ UNCHANGED <<mode, procVars, ctxVars, ioVars, execVars, bgVars, received, turnVars,
                 runVars, aggVars, idVars, startVars, environ, norm, resolve,
                 extVars>>

CodecDecodeAgain ==
  /\ codec.step = "data"
  /\ codec' = [step |-> "again", line |-> codec.line, event |-> codec.event,
               data |-> codec.data, again |-> UnmarshalJSON(codec.data)]
  /\ UNCHANGED <<mode, procVars, ctxVars, ioVars, execVars, bgVars, received, turnVars,
                 runVars, aggVars, idVars, startVars, environ, norm, resolve,
                 extVars>>

\* an Exec.Run call with some ExecArgs, before commandArgs is built
ArgsInit ==
  /\ ThreadState("streamed", {""}, FALSE)
  /\ codec = NoCodec /\ environ = NoEnviron
  /\ norm = NoNorm /\ resolve = NoResolve
  /\ argv \in {[built |-> FALSE, args |-> a] : a \in ExecArgsSet}

\* Exec.Run builds commandArgs
BuildArgs ==
  /\ ~argv.built /\ argv # NoArgv
  /\ argv' = [built |-> TRUE, args |-> argv.args,
              commandArgs |-> CommandArgs(argv.args)]
  /\ UNCHANGED <<mode, procVars, ctxVars, ioVars, execVars, bgVars, received, turnVars,
                 runVars, aggVars, idVars, startpc, schemaDir, startErr, turnNo,
                 labVars, extVars>>

\* an Exec with some custom environment in some host environment, and the
\* overrides of a call, before buildEnvironment
EnvInit ==
  /\ ThreadState("streamed", {""}, FALSE)
  /\ codec = NoCodec /\ argv = NoArgv
  /\ norm = NoNorm /\ resolve = NoResolve
  /\ environ \in {[built |-> FALSE, custom |-> c, host |-> h, baseURL |-> u,
                   apiKey |-> a] :
                   c \in CustomMaps, h \in HostEnvirons,
                   u \in {"", "http://override"}, a \in {"", "override-key"}}

\* cmd.Env = e.buildEnvironment(args.BaseURL, args.APIKey)
BuildEnv ==
  /\ ~environ.built /\ environ # NoEnviron
  /\ environ' = [environ EXCEPT !.built = TRUE] @@
                ("env" :> buildEnvironment(environ.custom, environ.host,
                                           environ.baseURL, environ.apiKey))
  /\ UNCHANGED <<mode, procVars, ctxVars, ioVars, execVars, bgVars, received, turnVars,
                 runVars, aggVars, idVars, startVars, codec, norm, resolve,
                 extVars>>

\* a thread made by StartThread: its id is empty
InitMode(m) == InitSeed(m, {""})

\* RunStreamed has returned the StreamedTurn to its caller
Init == InitMode("streamed")

\* the same for a thread made by StartThread or by ResumeThread("A")
IdentityInit == InitSeed("streamed", {"", "A"})

\* Thread.Run has obtained the StreamedTurn and enters its event loop
RunInit == InitMode("run")

\* ------------------------------------------------- the external process
\* the process writes one more line to its standard output
\* the process writes its last output without a newline after it
ProcWriteTail(k) ==
  /\ proc = "running" /\ tail = "none"
  /\ tail' = k
  /\ UNCHANGED <<mode, labVars, closer, startVars, idVars, aggVars, procVars, ctxVars, ioVars,
                 execVars, bgVars, received, turnVars, runVars>>

ProcWriteLine(k) ==
  /\ proc = "running" /\ Len(out) < MaxLines /\ tail = "none"
  /\ out' = Append(out, k)
  /\ UNCHANGED <<mode, labVars, extVars, startVars, idVars, aggVars, errOut, proc, exitCode, ctxVars, ioVars, execVars, bgVars,
                 received, turnVars, runVars>>

\* the process writes one more character to its standard error
ProcWriteStderr(ch) ==
  /\ proc = "running" /\ Len(errOut) < MaxStderr
  /\ errOut' = Append(errOut, ch)
  /\ UNCHANGED <<mode, labVars, extVars, startVars, idVars, aggVars, out, proc, exitCode, ctxVars, ioVars, execVars, bgVars,
                 received, turnVars, runVars>>

\* the process exits on its own, with status 0 or a failure status
ProcExit(code) ==
  /\ proc = "running"
  /\ proc' = "exited" /\ exitCode' = code
  /\ UNCHANGED <<mode, labVars, extVars, startVars, idVars, aggVars, out, errOut, ctxVars, ioVars, execVars, bgVars,
                 received, turnVars, runVars>>

\* exec.CommandContext(ctx, ...): once ctx is done the command's watcher
\* kills a process that is still running
WatchCtxKillGuardAny == proc = "running"
WatchCtxKillGuardNever == FALSE
WatchCtxKillGuard == CtxDone /\ proc = "running"
WatchCtxKill ==
  /\ WatchCtxKillGuard
  /\ proc' = "exited" /\ exitCode' = KilledCode
  /\ UNCHANGED <<mode, labVars, extVars, startVars, idVars, aggVars, out, errOut, ctxVars, ioVars, execVars, bgVars,
                 received, turnVars, runVars>>

\* the caller cancels the context it passed to RunStreamed or Run
CallerCancel ==
  /\ ~callerCancelled
  /\ callerCancelled' = TRUE
  /\ UNCHANGED <<mode, labVars, extVars, startVars, idVars, aggVars, procVars, runCancelled, ioVars, execVars, bgVars,
                 received, turnVars, runVars>>

\* ------------------------------------------------ stdin-write goroutine
\* io.WriteString(stdin, args.Input) succeeds while the process is alive
StdinWriteOK ==
  /\ wr = "pending" /\ proc = "running" /\ ~pipesClosed
  /\ wr' = "ok"
  /\ UNCHANGED <<mode, labVars, extVars, startVars, idVars, aggVars, procVars, ctxVars, errBuf, stderrDone, pipesClosed,
                 execVars, bgVars, received, turnVars, runVars>>

\* the write fails although the process is alive (it closed its stdin)
StdinWriteClosedEarly ==
  /\ wr = "pending" /\ proc = "running"
  /\ wr' = "fail"
  /\ UNCHANGED <<mode, labVars, extVars, startVars, idVars, aggVars, procVars, ctxVars, errBuf, stderrDone, pipesClosed,
                 execVars, bgVars, received, turnVars, runVars>>

\* the write fails because the process is gone (broken pipe, or the pipe
\* was closed by cmd.Wait)
StdinWriteBrokenPipe ==
  /\ wr = "pending" /\ proc = "exited"
  /\ wr' = "fail"
  /\ UNCHANGED <<mode, labVars, extVars, startVars, idVars, aggVars, procVars, ctxVars, errBuf, stderrDone, pipesClosed,
                 execVars, bgVars, received, turnVars, runVars>>

\* ----------------------------------------------- stderr-drain goroutine
\* io.Copy(stderrBuf, stderr) copies what the process has written so far
DrainRead ==
  /\ ~stderrDone /\ ~pipesClosed /\ errBuf < Len(errOut)
  /\ errBuf' = Len(errOut)
  /\ UNCHANGED <<mode, labVars, extVars, startVars, idVars, aggVars, procVars, ctxVars, wr, stderrDone, pipesClosed,
                 execVars, bgVars, received, turnVars, runVars>>

\* io.Copy sees end of file: the process exited and everything was copied
DrainEOF ==
  /\ ~stderrDone /\ ~pipesClosed /\ proc = "exited" /\ errBuf = Len(errOut)
  /\ stderrDone' = TRUE
  /\ UNCHANGED <<mode, labVars, extVars, startVars, idVars, aggVars, procVars, ctxVars, wr, errBuf, pipesClosed,
                 execVars, bgVars, received, turnVars, runVars>>

\* io.Copy's read fails because cmd.Wait closed the pipe under it; what
\* was not copied yet is lost
DrainClosed ==
  /\ ~stderrDone /\ pipesClosed
  /\ stderrDone' = TRUE
  /\ UNCHANGED <<mode, labVars, extVars, startVars, idVars, aggVars, procVars, ctxVars, wr, errBuf, pipesClosed,
                 execVars, bgVars, received, turnVars, runVars>>

\* ------------------------------------------- sync.Once (both Wait methods)
\* Once.Do runs f for the first caller only
OnceRunsAlways(once) == once # "done"
OnceRuns(once) == once = "idle"

\* ------------------------------------------------------- ExecStream.Wait
\* the error Exec.Run's waitFn builds from cmd.Wait's error after both
\* channels were received
ExitResult(ce, code, text) ==
  CASE ce = "exit" -> ErrExecFailed(code, TrimSpace(text))
    [] ce = "ctx" -> ExecWrap(Canceled)
    [] OTHER -> NilErr

\* the errors cmd.Wait can return for an exited process: an ExitError for
\* a non-zero status; for status 0 nil, or ctx.Err() when the watcher had
\* already seen the context done
CmdWaitErrs ==
  IF exitCode # 0 THEN {"exit"}
  ELSE IF CtxDone THEN {"nil", "ctx"} ELSE {"nil"}

\* s.waitOnce.Do(...): the first caller starts waitFn, the others block
ExecWaitEnter(c) ==
  /\ ew[c] = "idle"
  /\ ew' = [ew EXCEPT ![c] = "called"]
  /\ IF OnceRuns(execOnce)
       THEN /\ execOnce' = "running"
            /\ execFn' = "cmdWait"
            /\ execCalls' = execCalls + 1
       ELSE UNCHANGED <<execOnce, execFn, execCalls>>
  /\ UNCHANGED <<cmdErr, execWaitErr, ewRes>>

\* return s.waitErr, once the Once has completed
ExecWaitLeave(c) ==
  /\ ew[c] = "called" /\ execOnce = "done"
  /\ ew' = [ew EXCEPT ![c] = "ret"]
  /\ ewRes' = [ewRes EXCEPT ![c] = execWaitErr]
  /\ UNCHANGED <<execOnce, execFn, cmdErr, execWaitErr, execCalls>>

\* waitFn: err := cmd.Wait() returns when the process has exited and
\* closes the parent ends of the three pipes
ExecCmdWait ==
  /\ execFn = "cmdWait" /\ proc = "exited"
  /\ \E ce \in CmdWaitErrs : cmdErr' = ce
  /\ pipesClosed' = TRUE
  /\ execFn' = "recvWrite"
  /\ UNCHANGED <<mode, labVars, extVars, startVars, idVars, aggVars, procVars, ctxVars, wr, errBuf, stderrDone, execOnce,
                 execWaitErr, execCalls, ew, ewRes, bgVars, received, turnVars,
                 runVars>>

\* waitFn: writeErr := <-writeErrCh; a write error is returned at once
ExecRecvWrite ==
  /\ execFn = "recvWrite" /\ wr # "pending"
  /\ IF wr = "fail"
       THEN /\ execWaitErr' = WriteErr
            /\ execFn' = "done"
            /\ execOnce' = "done"
       ELSE /\ execFn' = "recvStderr"
            /\ UNCHANGED <<execWaitErr, execOnce>>
  /\ UNCHANGED <<mode, labVars, extVars, startVars, idVars, aggVars, procVars, ctxVars, ioVars, cmdErr, execCalls, ew, ewRes,
                 bgVars, received, turnVars, runVars>>

\* waitFn: <-stderrDone, then the exit status decides the result
ExecRecvStderr ==
  /\ execFn = "recvStderr" /\ stderrDone
  /\ execWaitErr' = ExitResult(cmdErr, exitCode, SubSeq(errOut, 1, errBuf))
  /\ execFn' = "done"
  /\ execOnce' = "done"
  /\ UNCHANGED <<mode, labVars, extVars, startVars, idVars, aggVars, procVars, ctxVars, ioVars, cmdErr, execCalls, ew, ewRes,
                 bgVars, received, turnVars, runVars>>

\* another holder of the ExecStream calls Wait, after the goroutine has
\* stopped reading stdout
ExecStreamWaitCall(c) ==
  /\ c # BgCaller
  /\ pc \notin {"check", "read", "send"}
  /\ ExecWaitEnter(c)
  /\ UNCHANGED <<mode, labVars, extVars, startVars, idVars, aggVars, procVars, ctxVars, ioVars, bgVars, received, turnVars,
                 runVars>>

ExecStreamWaitReturn(c) ==
  /\ c # BgCaller
  /\ ExecWaitLeave(c)
  /\ UNCHANGED <<mode, labVars, extVars, startVars, idVars, aggVars, procVars, ctxVars, ioVars, bgVars, received, turnVars,
                 runVars>>

\* ------------------------------------------------------ ExecStream.Close
\* a holder of an Exec calls Exec.Run itself, as the SDK's tests of
\* ExecStream do: the process runs and no goroutine of a Thread reads it
ExecRunDirect ==
  /\ proc = "notStarted" /\ startpc = "idle"
  /\ proc' = "running"
  /\ UNCHANGED <<mode, labVars, extVars, startVars, idVars, aggVars, out, errOut, exitCode,
                 ctxVars, ioVars, execVars, bgVars, received, turnVars, runVars>>

\* what s.stdout.Close() returns: an error when the pipe was closed
\* before, by cmd.Wait or by an earlier Close
StdoutClose == IF pipesClosed \/ stdoutClosed THEN "file already closed" ELSE "nil"

\* s.closeOnce.Do(...) is entered: the first caller runs the function,
\* the others block until it has returned
ExecStreamCloseCall(c) ==
  /\ proc # "notStarted" /\ closer.pc[c] = "idle"
  /\ closer' = IF OnceRuns(closer.once)
                 THEN [closer EXCEPT !.pc[c] = "closing", !.once = "running"]
                 ELSE [closer EXCEPT !.pc[c] = "blocked"]
  /\ UNCHANGED <<mode, labVars, tail, startVars, idVars, aggVars, procVars, ctxVars,
                 ioVars, execVars, bgVars, received, turnVars, runVars>>

\* if s.stdout != nil { s.closeErr = s.stdout.Close() }, and the Once
\* completes
ExecStreamCloseStdout(c) ==
  /\ closer.pc[c] = "closing"
  /\ closer' = [closer EXCEPT !.err = StdoutClose, !.calls = @ + 1,
                              !.once = "done", !.pc[c] = "blocked"]
  /\ stdoutClosed' = TRUE
  /\ UNCHANGED <<mode, labVars, tail, startVars, idVars, aggVars, procVars, ctxVars,
                 ioVars, execVars, pc, rdIdx, pending, runErr, errCh, eventsClosed,
                 cleanups, received, turnVars, runVars>>

\* return s.closeErr
ExecStreamCloseReturn(c) ==
  /\ closer.pc[c] = "blocked" /\ closer.once = "done"
  /\ closer' = [closer EXCEPT !.pc[c] = "ret", !.res[c] = closer.err]
  /\ UNCHANGED <<mode, labVars, tail, startVars, idVars, aggVars, procVars, ctxVars,
                 ioVars, execVars, bgVars, received, turnVars, runVars>>

\* ------------------------------------------------ Thread.setID, Thread.ID
\* t.mu.Lock() returns: no writer and no reader holds the RWMutex
CanLock(m) == m.w = NoTask /\ m.r = 0

\* t.mu.RLock() returns: no writer holds the RWMutex
CanRLockAlways(m) == TRUE
CanRLock(m) == m.w = NoTask

\* setID past its "if id == \"\" { return }": t.mu.Lock() and the store of
\* the first word of t.id = id
SetIDLock(t, id) ==
  /\ CanLock(mu)
  /\ mu' = [mu EXCEPT !.w = t]
  /\ idPtr' = id
  /\ UNCHANGED <<seedID, idLen>>

\* the store of the second word of t.id = id, and t.mu.Unlock()
SetIDUnlock(t, id) ==
  /\ mu.w = t
  /\ idLen' = id
  /\ mu' = [mu EXCEPT !.w = NoTask]
  /\ UNCHANGED <<seedID, idPtr>>

\* a task calls setID(id): an empty id returns at once
SetIDCall(t, id) ==
  /\ setter[t].pc = "idle"
  /\ IF id = ""
       THEN /\ setter' = [setter EXCEPT ![t] = [pc |-> "done", val |-> id]]
            /\ UNCHANGED <<seedID, idPtr, idLen, mu>>
       ELSE /\ SetIDLock(t, id)
            /\ setter' = [setter EXCEPT ![t] = [pc |-> "locked", val |-> id]]
  /\ UNCHANGED <<mode, labVars, extVars, startVars, aggVars, getter, procVars, ctxVars, ioVars, execVars, bgVars,
                 received, turnVars, runVars>>

\* the task's setID stores the second word, unlocks and returns
SetIDReturn(t) ==
  /\ setter[t].pc = "locked"
  /\ SetIDUnlock(t, setter[t].val)
  /\ setter' = [setter EXCEPT ![t].pc = "done"]
  /\ UNCHANGED <<mode, labVars, extVars, startVars, aggVars, getter, procVars, ctxVars, ioVars, execVars, bgVars,
                 received, turnVars, runVars>>

\* a task calls ID(): t.mu.RLock() and the load of the first word of t.id
IDCall(t) ==
  /\ getter[t].pc = "idle"
  /\ CanRLock(mu)
  /\ mu' = [mu EXCEPT !.r = mu.r + 1]
  /\ getter' = [getter EXCEPT ![t] = [pc |-> "rlocked", ptr |-> idPtr, len |-> ""]]
  /\ UNCHANGED <<mode, labVars, extVars, startVars, aggVars, seedID, idPtr, idLen, setter, procVars, ctxVars, ioVars,
                 execVars, bgVars, received, turnVars, runVars>>

\* the load of the second word, the deferred t.mu.RUnlock() and the return
IDReturn(t) ==
  /\ getter[t].pc = "rlocked"
  /\ mu' = [mu EXCEPT !.r = mu.r - 1]
  /\ getter' = [getter EXCEPT ![t] = [pc |-> "done", ptr |-> getter[t].ptr,
                                      len |-> idLen]]
  /\ UNCHANGED <<mode, labVars, extVars, startVars, aggVars, seedID, idPtr, idLen, setter, procVars, ctxVars, ioVars,
                 execVars, bgVars, received, turnVars, runVars>>

\* ------------------------- background goroutine of runStreamedInternal
\* if ctxErr := ctx.Err(); ctxErr != nil { runErr = ctxErr; break }
BgCheck ==
  /\ pc = "check"
  /\ IF CtxDone
       THEN runErr' = Canceled /\ pc' = "wait"
       ELSE pc' = "read" /\ UNCHANGED runErr
  /\ UNCHANGED <<mode, labVars, extVars, startVars, idVars, aggVars, procVars, ctxVars, ioVars, execVars, rdIdx, pending, errCh,
                 eventsClosed, cleanups, stdoutClosed, received, turnVars, runVars>>

\* number of lines reader.ReadBytes('\n') consumes in one call
ReadStepSkipping == 1 + 1
ReadStep == 1

\* the line is forwarded to the select
Forwards(k) == NonBlank(k) /\ Decodes(k)

\* event.ThreadID of the decoded line
ThreadIDOf(k) == Decoded(k).ThreadID

\* event.Type == EventThreadStarted
IsThreadStarted(k) == Decoded(k).Type = "thread.started"

\* where the goroutine goes with a decoded event: through t.setID for a
\* thread.started event with an identifier, then to the select
AfterDecodeNoSetID(k) == "send"
AfterDecodeFirstOnly(k) ==
  IF IsThreadStarted(k) /\ ThreadIDOf(k) # "" /\ idLen = "" THEN "setID" ELSE "send"
AfterDecode(k) ==
  IF IsThreadStarted(k) /\ ThreadIDOf(k) # "" THEN "setID" ELSE "send"

\* line, readErr := reader.ReadBytes('\n') returns a complete line, which
\* is trimmed, skipped when blank and decoded otherwise
BgReadLine ==
  /\ pc = "read" /\ rdIdx + ReadStep <= Len(out) /\ ~stdoutClosed
  /\ LET i == rdIdx + ReadStep
         k == out[i]
     IN /\ rdIdx' = i
        /\ IF Forwards(k)
             THEN pending' = Event(i, k) /\ pc' = AfterDecode(k) /\ UNCHANGED runErr
             ELSE IF NonBlank(k)
               THEN runErr' = ParseErr /\ pc' = "wait" /\ UNCHANGED pending
               ELSE pc' = "check" /\ UNCHANGED <<runErr, pending>>
  /\ UNCHANGED <<mode, labVars, extVars, startVars, idVars, aggVars, procVars, ctxVars, ioVars, execVars, errCh, eventsClosed,
                 cleanups, stdoutClosed, received, turnVars, runVars>>

\* t.setID(event.ThreadID) takes the lock and stores the first word
BgSetIDLock ==
  /\ pc = "setID"
  /\ SetIDLock(BgTask, ThreadIDOf(pending.kind))
  /\ pc' = "setIDUnlock"
  /\ UNCHANGED <<mode, labVars, extVars, startVars, aggVars, setter, getter, procVars, ctxVars, ioVars, execVars,
                 rdIdx, pending, runErr, errCh, eventsClosed, cleanups, stdoutClosed,
                 received, turnVars, runVars>>

\* t.setID(event.ThreadID) stores the second word, unlocks and returns
BgSetIDUnlock ==
  /\ pc = "setIDUnlock"
  /\ SetIDUnlock(BgTask, ThreadIDOf(pending.kind))
  /\ pc' = "send"
  /\ UNCHANGED <<mode, labVars, extVars, startVars, aggVars, setter, getter, procVars, ctxVars, ioVars, execVars,
                 rdIdx, pending, runErr, errCh, eventsClosed, cleanups, stdoutClosed,
                 received, turnVars, runVars>>

\* ReadBytes returns io.EOF together with data: the bytes the process
\* wrote after its last newline
EOFWithDataIgnored == FALSE
EOFWithData == tail # "none"

\* ReadBytes returns io.EOF with no data: the process closed its stdout
BgReadEOF ==
  /\ pc = "read" /\ rdIdx >= Len(out) /\ proc = "exited" /\ ~EOFWithData
  /\ pc' = "wait"
  /\ UNCHANGED <<mode, labVars, extVars, startVars, idVars, aggVars, procVars, ctxVars, ioVars, execVars, rdIdx, pending, runErr,
                 errCh, eventsClosed, cleanups, stdoutClosed, received, turnVars,
                 runVars>>

\* ReadBytes returns the unterminated last line with io.EOF: the line is
\* trimmed and decoded as any other, and the loop ends after it
BgReadTail ==
  /\ pc = "read" /\ rdIdx = Len(out) /\ proc = "exited" /\ EOFWithData /\ ~stdoutClosed
  /\ rdIdx' = Len(out) + 1
  /\ IF Forwards(tail)
       THEN pending' = Event(Len(out) + 1, tail) /\ pc' = AfterDecode(tail)
            /\ UNCHANGED runErr
       ELSE IF NonBlank(tail)
         THEN runErr' = ParseErr /\ pc' = "wait" /\ UNCHANGED pending
         ELSE pc' = "wait" /\ UNCHANGED <<runErr, pending>>
  /\ UNCHANGED <<mode, labVars, extVars, startVars, idVars, aggVars, procVars, ctxVars, ioVars,
                 execVars, errCh, eventsClosed, cleanups, stdoutClosed, received, turnVars,
                 runVars>>

\* where the loop goes once the event of kind k is sent: to its top, or
\* out of the loop when the line came with io.EOF
LoopAfterSendStopsOnFailure(k) ==
  IF k = "turnFailed" \/ rdIdx > Len(out) THEN "wait" ELSE "check"
LoopAfterSend(k) == IF rdIdx > Len(out) THEN "wait" ELSE "check"

\* the goroutine's side of "case events <- event"
BgAfterSend ==
  /\ pc = "send"
  /\ received' = Append(received, pending)
  /\ pending' = NoEvent
  /\ pc' = LoopAfterSend(pending.kind)
  /\ UNCHANGED <<rdIdx, runErr, errCh, eventsClosed, cleanups, stdoutClosed>>

\* "case <-ctx.Done()": runErr = ctx.Err(), and the loop ends
BgSendCancelled ==
  /\ pc = "send" /\ CtxDone
  /\ runErr' = Canceled
  /\ pending' = NoEvent
  /\ pc' = "wait"
  /\ UNCHANGED <<mode, labVars, extVars, startVars, idVars, aggVars, procVars, ctxVars, ioVars, execVars, rdIdx, errCh,
                 eventsClosed, cleanups, stdoutClosed, received, turnVars, runVars>>

\* waitErr := stream.Wait() is entered
BgCallWait ==
  /\ pc = "wait"
  /\ ExecWaitEnter(BgCaller)
  /\ pc' = "waiting"
  /\ UNCHANGED <<mode, labVars, extVars, startVars, idVars, aggVars, procVars, ctxVars, ioVars, rdIdx, pending, runErr, errCh,
                 eventsClosed, cleanups, stdoutClosed, received, turnVars, runVars>>

\* the reconciliation of runErr with waitErr after stream.Wait()
ReconcilePrefersWait(r, w) == IF w # NilErr THEN w ELSE r
Reconcile(r, w) ==
  IF r = NilErr THEN w
  ELSE IF w # NilErr /\ ~ErrorsIs(r, w) THEN Joined(r, w)
  ELSE r

\* stream.Wait() returns and runErr is reconciled with its result
BgWaitReturn ==
  /\ pc = "waiting"
  /\ ExecWaitLeave(BgCaller)
  /\ runErr' = Reconcile(runErr, execWaitErr)
  /\ pc' = "publish"
  /\ UNCHANGED <<mode, labVars, extVars, startVars, idVars, aggVars, procVars, ctxVars, ioVars, rdIdx, pending, errCh,
                 eventsClosed, cleanups, stdoutClosed, received, turnVars, runVars>>

\* errCh <- runErr (the channel has room for one value)
BgPublishUnbuffered ==
  /\ pc = "publish" /\ turnOnce = "running"
  /\ turnWaitErr' = runErr
  /\ turnOnce' = "done"
  /\ pc' = "cleanup"
  /\ UNCHANGED <<mode, labVars, extVars, startVars, idVars, aggVars, procVars, ctxVars, ioVars, execVars, rdIdx, pending, runErr,
                 errCh, eventsClosed, cleanups, stdoutClosed, received, turnCalls, tw, twRes,
                 runVars>>
BgPublish ==
  /\ pc = "publish" /\ Len(errCh) < 1
  /\ errCh' = Append(errCh, runErr)
  /\ pc' = "cleanup"
  /\ UNCHANGED <<mode, labVars, extVars, startVars, idVars, aggVars, procVars, ctxVars, ioVars, execVars, rdIdx, pending, runErr,
                 eventsClosed, cleanups, stdoutClosed, received, turnVars, runVars>>

\* outputSchemaFile.Cleanup: os.RemoveAll of the temp directory, and
\* nothing when no schema was given
CleanupNothing(dir) == dir
Cleanup(dir) == IF dir = "present" THEN "removed" ELSE dir

\* deferred: _ = schemaFile.Cleanup()
BgCleanup ==
  /\ pc = "cleanup"
  /\ cleanups' = cleanups + 1
  /\ schemaDir' = Cleanup(schemaDir)
  /\ pc' = "closeStdout"
  /\ UNCHANGED <<mode, labVars, extVars, startpc, startErr, turnNo, argv, idVars, aggVars, procVars, ctxVars, ioVars, execVars, rdIdx, pending, runErr,
                 errCh, eventsClosed, stdoutClosed, received, turnVars, runVars>>

\* deferred: stdout.Close()
BgCloseStdout ==
  /\ pc = "closeStdout"
  /\ stdoutClosed' = TRUE
  /\ pc' = "closeEvents"
  /\ UNCHANGED <<mode, labVars, extVars, startVars, idVars, aggVars, procVars, ctxVars, ioVars, execVars, rdIdx, pending, runErr,
                 errCh, eventsClosed, cleanups, received, turnVars, runVars>>

\* deferred: close(events)
BgCloseEventsBeforeWait ==
  /\ \/ pc = "wait" /\ eventsClosed = 0 /\ eventsClosed' = 1 /\ UNCHANGED pc
     \/ pc = "closeEvents" /\ pc' = "done" /\ UNCHANGED eventsClosed
  /\ UNCHANGED <<mode, labVars, extVars, startVars, idVars, aggVars, procVars, ctxVars, ioVars, execVars, rdIdx, pending, runErr,
                 errCh, cleanups, stdoutClosed, received, turnVars, runVars>>
BgCloseEventsTwice ==
  /\ pc = "closeEvents"
  /\ eventsClosed' = eventsClosed + 1
  /\ pc' = IF eventsClosed = 0 THEN "closeEvents" ELSE "done"
  /\ UNCHANGED <<mode, labVars, extVars, startVars, idVars, aggVars, procVars, ctxVars, ioVars, execVars, rdIdx, pending, runErr,
                 errCh, cleanups, stdoutClosed, received, turnVars, runVars>>
BgCloseEvents ==
  /\ pc = "closeEvents"
  /\ eventsClosed' = eventsClosed + 1
  /\ pc' = "done"
  /\ UNCHANGED <<mode, labVars, extVars, startVars, idVars, aggVars, procVars, ctxVars, ioVars, execVars, rdIdx, pending, runErr,
                 errCh, cleanups, stdoutClosed, received, turnVars, runVars>>

\* ------------------------------------------------------ StreamedTurn.Wait
\* s.waitOnce.Do(...): the first caller starts waitFn, the others block
TurnWaitEnter(c) ==
  /\ tw[c] = "idle"
  /\ tw' = [tw EXCEPT ![c] = "called"]
  /\ IF OnceRuns(turnOnce)
       THEN turnOnce' = "running" /\ turnCalls' = turnCalls + 1
       ELSE UNCHANGED <<turnOnce, turnCalls>>
  /\ UNCHANGED <<turnWaitErr, twRes>>

\* return s.waitErr, once the Once has completed
TurnWaitLeave(c) ==
  /\ tw[c] = "called" /\ turnOnce = "done"
  /\ tw' = [tw EXCEPT ![c] = "ret"]
  /\ twRes' = [twRes EXCEPT ![c] = turnWaitErr]
  /\ UNCHANGED <<turnOnce, turnWaitErr, turnCalls>>

\* waitFn: return <-errCh
TurnWaitFnPolling ==
  /\ turnOnce = "running"
  /\ turnWaitErr' = IF errCh # <<>> THEN Head(errCh) ELSE NilErr
  /\ errCh' = IF errCh # <<>> THEN Tail(errCh) ELSE errCh
  /\ turnOnce' = "done"
  /\ UNCHANGED <<mode, labVars, extVars, startVars, idVars, aggVars, procVars, ctxVars, ioVars, execVars, pc, rdIdx, pending,
                 runErr, eventsClosed, cleanups, stdoutClosed, received, turnCalls,
                 tw, twRes, runVars>>
TurnWaitFn ==
  /\ turnOnce = "running" /\ errCh # <<>>
  /\ turnWaitErr' = Head(errCh)
  /\ errCh' = Tail(errCh)
  /\ turnOnce' = "done"
  /\ UNCHANGED <<mode, labVars, extVars, startVars, idVars, aggVars, procVars, ctxVars, ioVars, execVars, pc, rdIdx, pending,
                 runErr, eventsClosed, cleanups, stdoutClosed, received, turnCalls,
                 tw, twRes, runVars>>

\* ------------------------------------------- a caller of RunStreamed
\* the consumer receives the next event from Events
StreamedRecv ==
  /\ mode = "streamed"
  /\ BgAfterSend
  /\ UNCHANGED <<mode, labVars, extVars, startVars, idVars, aggVars, procVars, ctxVars, ioVars, execVars, turnVars, runVars>>

StreamedWaitCall(c) ==
  /\ mode = "streamed"
  /\ TurnWaitEnter(c)
  /\ UNCHANGED <<mode, labVars, extVars, startVars, idVars, aggVars, procVars, ctxVars, ioVars, execVars, bgVars, received,
                 runVars>>

StreamedWaitReturn(c) ==
  /\ mode = "streamed"
  /\ TurnWaitLeave(c)
  /\ UNCHANGED <<mode, labVars, extVars, startVars, idVars, aggVars, procVars, ctxVars, ioVars, execVars, bgVars, received,
                 runVars>>

\* ------------------------------------------------- runStreamedInternal
\* the channels, the Once values and the process of a call: none yet
\* (running = FALSE), or as Exec.Run and runStreamedInternal make them
NewStream(running) ==
  /\ out' = <<>> /\ errOut' = <<>> /\ exitCode' = 0
  /\ proc' = (IF running THEN "running" ELSE "notStarted")
  /\ callerCancelled' = FALSE /\ runCancelled' = FALSE
  /\ wr' = "pending" /\ errBuf' = 0 /\ stderrDone' = FALSE /\ pipesClosed' = FALSE
  /\ execOnce' = "idle" /\ execFn' = "idle" /\ cmdErr' = "nil"
  /\ execWaitErr' = NilErr /\ execCalls' = 0
  /\ ew' = [c \in ExecCallers |-> "idle"]
  /\ ewRes' = [c \in ExecCallers |-> NilErr]
  /\ pc' = (IF running THEN "check" ELSE "none")
  /\ rdIdx' = 0 /\ pending' = NoEvent /\ runErr' = NilErr
  /\ errCh' = <<>> /\ eventsClosed' = 0 /\ cleanups' = 0 /\ stdoutClosed' = FALSE
  /\ received' = <<>>
  /\ closer' = NoCloser /\ tail' = "none"
  /\ turnOnce' = "idle" /\ turnWaitErr' = NilErr /\ turnCalls' = 0
  /\ tw' = [c \in TurnCallers |-> "idle"]
  /\ twRes' = [c \in TurnCallers |-> NilErr]

\* the caller makes its next RunStreamed or Run call with a context of
\* its own, after the stream of the call before has ended and, for Run,
\* after Run has returned; Run declares its items, finalResponse, usage
\* and turnFailure
StartCall ==
  /\ turnNo < MaxTurns
  /\ \/ startpc = "idle"
     \/ mode = "streamed" /\ startpc = "failed"
     \/ mode = "streamed" /\ startpc = "started" /\ pc = "done"
          /\ tw[RunCaller] # "called"
     \/ mode = "run" /\ runpc = "done" /\ pc \in {"none", "done"}
  /\ turnNo' = turnNo + 1
  /\ startpc' = "schema" /\ startErr' = "nil" /\ schemaDir' = "none"
  /\ NewStream(FALSE)
  /\ IF mode = "run"
       THEN /\ runpc' = "start" /\ turnFailure' = FALSE /\ runResult' = NilErr
            /\ items' = <<>> /\ finalResponse' = 0 /\ usage' = "nil"
            /\ turn' = NoTurn
       ELSE UNCHANGED <<runVars, aggVars>>
  /\ UNCHANGED <<mode, labVars, argv, idVars>>

\* what createOutputSchemaFile does to the temp directory and returns
\* for each of its paths: no schema given, a schema that fails
\* validation, MkdirTemp failing, json.Marshal or WriteFile failing after
\* the directory was made (cleanup() is called), and success
SchemaOutcomes ==
  {"noSchema", "invalid", "mkdirFailed", "marshalFailed", "writeFailed", "created"}
createOutputSchemaFile(o) ==
  CASE o \in {"noSchema", "invalid", "mkdirFailed"} -> "none"
    [] o \in {"marshalFailed", "writeFailed"} -> Cleanup("present")
    [] o = "created" -> "present"
SchemaErr(o) == IF o \in {"noSchema", "created"} THEN "nil" ELSE o

\* schemaFile, err := createOutputSchemaFile(turnOptions.OutputSchema);
\* if err != nil { return nil, err }
StartSchema(o) ==
  /\ startpc = "schema"
  /\ schemaDir' = createOutputSchemaFile(o)
  /\ startErr' = SchemaErr(o)
  /\ startpc' = (IF SchemaErr(o) = "nil" THEN "normalize" ELSE "failed")
  /\ UNCHANGED <<mode, labVars, extVars, turnNo, argv, idVars, aggVars, procVars, ctxVars, ioVars,
                 execVars, bgVars, received, turnVars, runVars>>

\* what runStreamedInternal does with the schema file when a later step
\* of it fails: _ = schemaFile.Cleanup()
CleanupOnFailureSkipped(dir) == dir
CleanupOnFailure(dir) == Cleanup(dir)

\* prompt, images, err := normalizeInput(input); on an error the schema
\* file is cleaned up and the error returned
StartNormalize(ok) ==
  /\ startpc = "normalize"
  /\ IF ok
       THEN startpc' = "exec" /\ UNCHANGED <<schemaDir, startErr>>
       ELSE /\ schemaDir' = CleanupOnFailure(schemaDir)
            /\ startErr' = "invalid input" /\ startpc' = "failed"
  /\ UNCHANGED <<mode, labVars, extVars, turnNo, argv, idVars, aggVars, procVars, ctxVars, ioVars,
                 execVars, bgVars, received, turnVars, runVars>>

\* the ThreadID of the ExecArgs: t.currentID()
CurrentIDOfSeed == seedID
CurrentID == idLen

\* the ExecArgs runStreamedInternal passes for a thread without options
TurnExecArgs ==
  [Model |-> "", SandboxMode |-> "", WorkingDirectory |-> "",
   AdditionalDirectories |-> <<>>, SkipGitRepoCheck |-> FALSE,
   OutputSchemaFile |-> (IF schemaDir = "present" THEN "/tmp/schema.json" ELSE ""),
   ModelReasoningEffort |-> "", NetworkAccessEnabled |-> NilBool,
   WebSearchEnabled |-> NilBool, ApprovalPolicy |-> "", Images |-> <<>>,
   ThreadID |-> CurrentID]

\* stream, err := t.exec.Run(ctx, ExecArgs{...}): the arguments are
\* built; when a pipe cannot be opened or the process cannot be started
\* (as with a context that is already done) the schema file is cleaned up
\* and the error returned; otherwise the process runs, and the channels
\* and the goroutine of the stream are made
StartExec(ok) ==
  /\ startpc = "exec"
  /\ ok => ~callerCancelled
  /\ argv' = [built |-> TRUE, args |-> TurnExecArgs,
              commandArgs |-> CommandArgs(TurnExecArgs)]
  /\ IF ok
       THEN /\ startpc' = "started" /\ NewStream(TRUE)
            /\ runpc' = (IF mode = "run" THEN "loop" ELSE runpc)
            /\ UNCHANGED <<schemaDir, startErr, turnFailure, runResult>>
       ELSE /\ schemaDir' = CleanupOnFailure(schemaDir)
            /\ startErr' = "start codex exec" /\ startpc' = "failed"
            /\ UNCHANGED <<procVars, ctxVars, ioVars, execVars, bgVars, received,
                           turnVars, runVars, extVars>>
  /\ UNCHANGED <<mode, labVars, turnNo, idVars, aggVars>>

\* the error of a runStreamedInternal call that failed
StartFailed(e) == MkErr(e, 0, <<>>, FALSE, "nil")

\* ------------------------------------------------------------- Thread.Run
\* streamed, err := t.runStreamedInternal(ctx, input, opts);
\* if err != nil { return nil, err }
RunReturnStartErr ==
  /\ mode = "run" /\ runpc = "start" /\ startpc = "failed"
  /\ runResult' = StartFailed(startErr)
  /\ turn' = NoTurn
  /\ runpc' = "done"
  /\ UNCHANGED <<mode, labVars, extVars, startVars, idVars, items, finalResponse, usage, procVars,
                 ctxVars, ioVars, execVars, bgVars, received, turnVars, turnFailure>>

\* case EventTurnCompleted: usage = event.Usage
NextUsageFirstOnly(us, k) ==
  IF IsTurnCompleted(k) /\ us = "nil" THEN UsageOf(k) ELSE us
NextUsage(us, k) == IF IsTurnCompleted(k) THEN UsageOf(k) ELSE us

\* for event := range streamed.Events: one event is received; a
\* turn.failed event records the failure and leaves for cancel()
RunRecv ==
  /\ mode = "run" /\ runpc = "loop"
  /\ BgAfterSend
  /\ IF pending.kind = "turnFailed"
       THEN turnFailure' = TRUE /\ runpc' = "cancel"
       ELSE UNCHANGED <<turnFailure, runpc>>
  /\ IF IsItemCompleted(pending.kind) /\ ItemOf(pending.kind) # "nil"
       THEN /\ items' = Append(items, pending.idx)
            /\ finalResponse' = IF ItemOf(pending.kind) = "agent_message"
                                  THEN pending.idx ELSE finalResponse
       ELSE UNCHANGED <<items, finalResponse>>
  /\ usage' = NextUsage(usage, pending.kind)
  /\ UNCHANGED <<mode, labVars, extVars, startVars, idVars, turn, procVars, ctxVars, ioVars, execVars, turnVars, runResult>>

\* cancel(); break loop
RunCancel ==
  /\ runpc = "cancel"
  /\ runCancelled' = TRUE
  /\ runpc' = "callwait"
  /\ UNCHANGED <<mode, labVars, extVars, startVars, idVars, aggVars, procVars, callerCancelled, ioVars, execVars, bgVars,
                 received, turnVars, turnFailure, runResult>>

\* the range loop ends because Events was closed
RunLoopEnd ==
  /\ runpc = "loop" /\ eventsClosed > 0
  /\ runpc' = "callwait"
  /\ UNCHANGED <<mode, labVars, extVars, startVars, idVars, aggVars, procVars, ctxVars, ioVars, execVars, bgVars, received,
                 turnVars, turnFailure, runResult>>

\* waitErr := streamed.Wait() is entered
RunCallWait ==
  /\ runpc = "callwait"
  /\ TurnWaitEnter(RunCaller)
  /\ runpc' = "waiting"
  /\ UNCHANGED <<mode, labVars, extVars, startVars, idVars, aggVars, procVars, ctxVars, ioVars, execVars, bgVars, received,
                 turnFailure, runResult>>

\* the error Thread.Run returns (NilErr: it returns the Turn)
RunOutcomeOfWaitOnly(failed, waitErr) == waitErr
RunOutcome(failed, waitErr) ==
  IF failed
    THEN IF waitErr # NilErr /\ ~IsCanceled(waitErr) THEN waitErr ELSE TurnFailedErr
    ELSE waitErr

\* streamed.Wait() returns and Run returns the Turn or the error; the
\* deferred cancel() runs
RunReturn ==
  /\ runpc = "waiting"
  /\ TurnWaitLeave(RunCaller)
  /\ runResult' = RunOutcome(turnFailure, turnWaitErr)
  /\ turn' = IF RunOutcome(turnFailure, turnWaitErr) = NilErr
               THEN MkTurn(items, finalResponse, usage) ELSE NoTurn
  /\ runpc' = "done"
  /\ UNCHANGED <<mode, labVars, extVars, startVars, idVars, items, finalResponse, usage, procVars, ctxVars, ioVars, execVars, bgVars, received,
                 turnFailure>>

\* ------------------------------------------------------------------- Next
\* the command's context watcher, the goroutines of Exec.Run and the
\* exit of the process
ExecRest ==
  \/ \E code \in {0, FailCode} : ProcExit(code)
  \/ WatchCtxKill
  \/ CallerCancel
  \/ StdinWriteOK
  \/ StdinWriteClosedEarly
  \/ StdinWriteBrokenPipe
  \/ DrainEOF
  \/ DrainClosed
  \/ ExecCmdWait
  \/ ExecRecvWrite
  \/ ExecRecvStderr

\* the process, the command's context watcher and the goroutines of
\* Exec.Run, without the stderr text
ExecCore ==
  \/ \E k \in LineKinds : ProcWriteLine(k)
  \/ ExecRest

\* the same for a process that writes item lines
ExecItems ==
  \/ \E k \in ItemLineKinds : ProcWriteLine(k)
  \/ ExecRest

\* the same for a process that writes thread.started lines and lines
\* without a type
ExecIdentity ==
  \/ \E k \in IdentityLineKinds : ProcWriteLine(k)
  \/ ExecRest

\* the same for a process that writes item lines of a type the SDK does
\* not know or without a type, lines of an unknown event type and
\* turn.completed lines
ExecAggregate ==
  \/ \E k \in AggregateLineKinds : ProcWriteLine(k)
  \/ ExecRest

\* the same for a process that writes turn.completed lines and agent
\* messages
ExecUsage ==
  \/ \E k \in UsageLineKinds : ProcWriteLine(k)
  \/ ExecRest

\* the same for a process whose output may end without a newline
ExecTail ==
  \/ \E k \in TailLineKinds : ProcWriteLine(k)
  \/ \E k \in TailLineKinds : ProcWriteTail(k)
  \/ ExecRest

\* the same for a process that writes known events and turn.failed
ExecFailure ==
  \/ \E k \in FailureLineKinds : ProcWriteLine(k)
  \/ ExecRest

\* the same for the processes of the turns of one thread
ExecTurns ==
  \/ \E k \in TurnsLineKinds : ProcWriteLine(k)
  \/ ExecRest

\* the same with a process that writes to its standard error
ExecNext ==
  \/ ExecCore
  \/ \E ch \in StderrChars : ProcWriteStderr(ch)
  \/ DrainRead

\* the background goroutine and the waitFn of the StreamedTurn
BgNext ==
  \/ BgCheck
  \/ BgReadLine
  \/ BgReadEOF
  \/ BgSendCancelled
  \/ BgCallWait
  \/ BgWaitReturn
  \/ BgPublish
  \/ BgCleanup
  \/ BgCloseStdout
  \/ BgCloseEvents
  \/ TurnWaitFn

\* a caller of RunStreamed that receives events and calls Wait
Next ==
  \/ ExecNext
  \/ BgNext
  \/ StreamedRecv
  \/ StreamedWaitCall(RunCaller)
  \/ StreamedWaitReturn(RunCaller)

\* a caller of RunStreamed with NumWaiters tasks calling StreamedTurn.Wait
\* and NumWaiters holders of the ExecStream calling ExecStream.Wait
WaitNext ==
  \/ ExecCore
  \/ BgNext
  \/ StreamedRecv
  \/ \E c \in TurnCallers : StreamedWaitCall(c)
  \/ \E c \in TurnCallers : StreamedWaitReturn(c)
  \/ \E c \in ExecCallers : ExecStreamWaitCall(c)
  \/ \E c \in ExecCallers : ExecStreamWaitReturn(c)

\* a caller of RunStreamed and a process whose output may end without a
\* newline
TailNext ==
  \/ ExecTail
  \/ BgNext
  \/ BgReadTail
  \/ StreamedRecv
  \/ StreamedWaitCall(RunCaller)
  \/ StreamedWaitReturn(RunCaller)

\* Thread.Run called on one thread, with or without an output schema,
\* over known events and turn.failed
CleanupNext ==
  \/ StartCall
  \/ \E o \in SchemaOutcomes : StartSchema(o)
  \/ \E ok \in BOOLEAN : StartNormalize(ok)
  \/ \E ok \in BOOLEAN : StartExec(ok)
  \/ ExecFailure
  \/ BgNext
  \/ RunReturnStartErr
  \/ RunRecv
  \/ RunCancel
  \/ RunLoopEnd
  \/ RunCallWait
  \/ RunReturn

\* a caller of Thread.Run
\* Thread.Run over turn.completed lines and agent messages
UsageNext ==
  \/ ExecUsage
  \/ BgNext
  \/ RunRecv
  \/ RunLoopEnd
  \/ RunCallWait
  \/ RunReturn

RunNext ==
  \/ ExecNext
  \/ BgNext
  \/ RunRecv
  \/ RunCancel
  \/ RunLoopEnd
  \/ RunCallWait
  \/ RunReturn

\* a caller of RunStreamed on a new or resumed thread whose process
\* announces thread identifiers
IdentityNext ==
  \/ ExecIdentity
  \/ BgNext
  \/ BgSetIDLock
  \/ BgSetIDUnlock
  \/ StreamedRecv
  \/ StreamedWaitCall(RunCaller)
  \/ StreamedWaitReturn(RunCaller)

\* tasks that call setID and ID() on a thread, as the SDK's concurrency
\* tests do
TasksNext ==
  \/ \E t \in Setters, id \in ThreadIDs : SetIDCall(t, id)
  \/ \E t \in Setters : SetIDReturn(t)
  \/ \E t \in Getters : IDCall(t)
  \/ \E t \in Getters : IDReturn(t)

\* a caller of Thread.Run whose process writes item lines and no
\* turn.failed line, so that Run never reaches its cancel()
ItemsNext ==
  \/ ExecItems
  \/ BgNext
  \/ RunRecv
  \/ RunLoopEnd
  \/ RunCallWait
  \/ RunReturn

\* a caller of Thread.Run whose process writes lines of kinds the SDK
\* does not know among lines it aggregates
AggregateNext ==
  \/ ExecAggregate
  \/ BgNext
  \/ RunRecv
  \/ RunLoopEnd
  \/ RunCallWait
  \/ RunReturn

\* a caller that makes RunStreamed calls on one thread one after the
\* other, receives the events of each stream and calls its Wait
TurnsNext ==
  \/ StartCall
  \/ \E o \in SchemaOutcomes : StartSchema(o)
  \/ \E ok \in BOOLEAN : StartNormalize(ok)
  \/ \E ok \in BOOLEAN : StartExec(ok)
  \/ ExecTurns
  \/ BgNext
  \/ BgSetIDLock
  \/ BgSetIDUnlock
  \/ StreamedRecv
  \/ startpc = "started" /\ StreamedWaitCall(RunCaller)
  \/ StreamedWaitReturn(RunCaller)
  \/ RunReturnStartErr
  \/ RunRecv
  \/ RunLoopEnd
  \/ RunCallWait
  \/ RunReturn

\* a holder of an ExecStream whose tasks call Close and Wait on it while
\* the process runs
CloseNext ==
  \/ ExecRunDirect
  \/ ExecRest
  \/ \E c \in Closers : ExecStreamCloseCall(c)
  \/ \E c \in Closers : ExecStreamCloseStdout(c)
  \/ \E c \in Closers : ExecStreamCloseReturn(c)
  \/ \E c \in ExecCallers : ExecStreamWaitCall(c)
  \/ \E c \in ExecCallers : ExecStreamWaitReturn(c)

\* an Input built with Text or Compose, before it is normalized
NormInit ==
  /\ ThreadState("streamed", {""}, FALSE)
  /\ argv = NoArgv /\ codec = NoCodec /\ environ = NoEnviron /\ resolve = NoResolve
  /\ \E input \in Inputs : norm = [done |-> FALSE, input |-> input]

\* prompt, images, err := normalizeInput(input)
NormalizeInput ==
  /\ ~norm.done
  /\ norm' = [done |-> TRUE, input |-> norm.input, out |-> normalizeInput(norm.input)]
  /\ UNCHANGED <<mode, codec, environ, resolve, extVars, startVars, idVars, aggVars, procVars,
                 ctxVars, ioVars, execVars, bgVars, received, turnVars, runVars>>

NormNext == NormalizeInput

\* normalizeInput applied to one Input
NormSpec == NormInit /\ [][NormNext]_vars

\* a host and the CodexPath option, before New is called
ResolveInit ==
  /\ ThreadState("streamed", {""}, FALSE)
  /\ argv = NoArgv /\ codec = NoCodec /\ environ = NoEnviron /\ norm = NoNorm
  /\ \E o \in PathOverrides, h \in Hosts :
       resolve = [done |-> FALSE, override |-> o, host |-> h]

\* client, err := New(WithCodexPath(override))
NewClient ==
  /\ ~resolve.done
  /\ resolve' = [done |-> TRUE, override |-> resolve.override, host |-> resolve.host,
                  out |-> New(resolve.override, resolve.host)]
  /\ UNCHANGED <<mode, codec, environ, norm, extVars, startVars, idVars, aggVars, procVars,
                 ctxVars, ioVars, execVars, bgVars, received, turnVars, runVars>>

ResolveNext == NewClient

\* New called once on one host
ResolveSpec == ResolveInit /\ [][ResolveNext]_vars

\* one streamed turn
Spec == Init /\ [][Next]_vars

\* one streamed turn whose two Wait methods have several callers
WaitSpec == Init /\ [][WaitNext]_vars

\* one streamed turn under the scheduling the Go runtime and the operating
\* system guarantee: every goroutine of the SDK that can take a step
\* eventually takes it, the command's context watcher delivers its kill,
\* and reads and writes on the pipes of a dead process return.  Nothing
\* is assumed of the process, of the caller's cancellation or of the
\* consumer receiving from Events or calling Wait.
LiveNext ==
  \/ ExecCore
  \/ BgNext
  \/ StreamedRecv
  \/ StreamedWaitCall(RunCaller)
  \/ StreamedWaitReturn(RunCaller)

Fairness ==
  /\ WF_vars(BgCheck) /\ WF_vars(BgReadLine) /\ WF_vars(BgReadEOF)
  /\ WF_vars(BgSendCancelled) /\ WF_vars(BgCallWait) /\ WF_vars(BgWaitReturn)
  /\ WF_vars(BgPublish) /\ WF_vars(BgCleanup) /\ WF_vars(BgCloseStdout)
  /\ WF_vars(BgCloseEvents) /\ WF_vars(TurnWaitFn)
  /\ WF_vars(StreamedWaitReturn(RunCaller))
  /\ WF_vars(WatchCtxKill) /\ WF_vars(StdinWriteBrokenPipe)
  /\ WF_vars(DrainEOF) /\ WF_vars(DrainClosed)
  /\ WF_vars(ExecCmdWait) /\ WF_vars(ExecRecvWrite) /\ WF_vars(ExecRecvStderr)

LiveSpec == Init /\ [][LiveNext]_vars /\ Fairness

\* one streamed turn of a new or resumed thread
IdentitySpec == IdentityInit /\ [][IdentityNext]_vars

\* concurrent setID and ID() on a new or resumed thread
TasksSpec == IdentityInit /\ [][TasksNext]_vars

\* one aggregated turn of items
ItemsSpec == RunInit /\ [][ItemsNext]_vars

\* one aggregated turn with unknown kinds of lines
AggregateSpec == RunInit /\ [][AggregateNext]_vars

\* the decoder and the encoder applied to one line
CodecNext ==
  \/ CodecDecode
  \/ CodecEncode
  \/ CodecDecodeAgain

CodecSpec == CodecInit /\ [][CodecNext]_vars

\* a new thread, or a thread resumed as "B", before the first RunStreamed
\* or Run call of its caller
TurnsInit ==
  /\ \E m \in {"streamed", "run"} : ThreadState(m, {"", "B"}, FALSE)
  /\ argv = NoArgv /\ codec = NoCodec /\ environ = NoEnviron
  /\ norm = NoNorm /\ resolve = NoResolve

\* a thread before its first Thread.Run call
CleanupInit ==
  /\ ThreadState("run", {""}, FALSE)
  /\ argv = NoArgv /\ codec = NoCodec /\ environ = NoEnviron
  /\ norm = NoNorm /\ resolve = NoResolve

\* Thread.Run calls with a schema file
CleanupSpec == CleanupInit /\ [][CleanupNext]_vars

\* the turns of one thread
TurnsSpec == TurnsInit /\ [][TurnsNext]_vars

\* an Exec before its holder calls Run
CloseInit ==
  /\ ThreadState("streamed", {""}, FALSE)
  /\ argv = NoArgv /\ codec = NoCodec /\ environ = NoEnviron
  /\ norm = NoNorm /\ resolve = NoResolve

\* Close and Wait called on one ExecStream
CloseSpec == CloseInit /\ [][CloseNext]_vars

\* the argument vector of one Exec.Run call
ArgsNext == BuildArgs

ArgsSpec == ArgsInit /\ [][ArgsNext]_vars

\* the environment of one Exec.Run call
EnvNext == BuildEnv

EnvSpec == EnvInit /\ [][EnvNext]_vars

\* one aggregated turn
RunSpec == RunInit /\ [][RunNext]_vars

TailSpec == Init /\ [][TailNext]_vars

UsageSpec == RunInit /\ [][UsageNext]_vars

TypeOK ==
  /\ mode \in {"streamed", "run"}
  /\ Len(out) <= MaxLines /\ Len(errOut) <= MaxStderr
  /\ proc \in {"notStarted", "running", "exited"}
  /\ exitCode \in {0, FailCode, KilledCode}

\* ------------------------------------------------------ derived sequences
\* the events of the non-blank lines among the first n lines of stdout
RECURSIVE NonBlankEvents(_)
NonBlankEvents(n) ==
  IF n = 0 THEN <<>>
  ELSE IF out[n] # "blank"
    THEN Append(NonBlankEvents(n - 1), [idx |-> n, kind |-> out[n]])
  ELSE NonBlankEvents(n - 1)

IsPrefix(a, b) == Len(a) <= Len(b) /\ SubSeq(b, 1, Len(a)) = a

\* every line the process wrote is a JSON object with a type, known or not
AllWellFormed ==
  \A i \in 1..Len(out) : out[i] \in {"known", "unknownType", "turnFailed"}

\* the process wrote no line that fails to decode
NoMalformed == \A i \in 1..Len(out) : out[i] # "malformed"

\* ------------------------------------------------------------------ claims

\* C1: StreamedTurn.Wait() and ExecStream.Wait(), called by several callers
\* one after the other or concurrently, return the identical error value to
\* every caller, and the underlying wait function runs exactly once.
C1_WaitOnce ==
  /\ turnCalls <= 1 /\ execCalls <= 1
  /\ (\E c \in TurnCallers : tw[c] # "idle") => turnCalls = 1
  /\ (\E c \in ExecCallers : ew[c] # "idle") => execCalls = 1
  /\ \A c, d \in TurnCallers :
       tw[c] = "ret" /\ tw[d] = "ret" => twRes[c] = twRes[d]
  /\ \A c, d \in ExecCallers :
       ew[c] = "ret" /\ ew[d] = "ret" => ewRes[c] = ewRes[d]

\* every caller of both Wait methods has returned, with an error
C1_Witness ==
  /\ \A c \in TurnCallers : tw[c] = "ret" /\ twRes[c] # NilErr
  /\ \A c \in ExecCallers : ew[c] = "ret" /\ ewRes[c] # NilErr

\* C2: when Thread.Run consumed a turn.failed event and the process does
\* not fail on its own (and nothing else goes wrong), Run returns the
\* turn-failure message, whatever the interleaving of cancel() with the
\* background goroutine.
C2_TurnFailureReturned ==
  (/\ runpc = "done" /\ turnFailure
   /\ exitCode # FailCode /\ wr = "ok" /\ ~callerCancelled
   /\ NoMalformed)
  => runResult = TurnFailedErr

\* C3: when Thread.Run consumed a turn.failed event and the process exits
\* on its own with a non-zero status, Run returns the stream's termination
\* error, never the turn-failure message.
C3_ProcessFailureNotMasked ==
  (/\ runpc = "done" /\ turnFailure
   /\ exitCode = FailCode /\ wr = "ok" /\ ~callerCancelled
   /\ NoMalformed)
  => (runResult # TurnFailedErr /\ runResult.kind = "execfailed")

C5_CancelEndsTask ==
  /\ callerCancelled ~> (pc = "done" /\ eventsClosed = 1)
  /\ (callerCancelled /\ tw[RunCaller] = "called") ~> (tw[RunCaller] = "ret")

\* the goroutine ended after a cancellation it did not observe itself: it
\* was blocked in the read until the killed process closed its stdout
C5_Witness ==
  /\ callerCancelled /\ pc = "done" /\ eventsClosed = 1
  /\ exitCode = KilledCode /\ rdIdx = Len(out)
  /\ ~IsCanceled(runErr)
  /\ tw[RunCaller] = "ret"

\* C6: what the consumer has received is at every moment a prefix of the
\* events of the non-blank lines written so far, in their order; a blank
\* line yields neither an event nor a decode error.
C6_EventsArePrefix ==
  /\ IsPrefix(received, NonBlankEvents(Len(out)))
  /\ \A j \in 1..Len(received) : received[j].kind # "blank"
  /\ runErr.kind = "parse" => (rdIdx > 0 /\ out[rdIdx] = "malformed")

\* an event was delivered from the line that follows a blank line
C6_Witness ==
  /\ Len(out) = 2 /\ out[1] = "blank"
  /\ received = <<[idx |-> 2, kind |-> out[2]]>>

C8_StderrInFull ==
  (execOnce = "done" /\ exitCode = FailCode /\ Len(out) >= 1)
  => execWaitErr = ErrExecFailed(FailCode, errOut)

\* C9: ExecStream.Wait() returns ErrExecFailed for a non-zero exit status
\* even when the stdin write failed, the stdin write error only for exit
\* status 0, and nil only when both succeeded.
C9_WaitPrecedence ==
  execOnce = "done" =>
    /\ exitCode # 0 => execWaitErr.kind = "execfailed"
    /\ execWaitErr.kind = "write" => (exitCode = 0 /\ wr = "fail")
    /\ execWaitErr = NilErr => (exitCode = 0 /\ wr = "ok")

\* C10: ExecStream.Wait() returns only after the process exited and the
\* stdin-write and stderr-drain goroutines have both finished.
C10_WaitAfterTasks ==
  execOnce = "done" => (proc = "exited" /\ wr # "pending" /\ stderrDone)

\* ------------------------------------------------------- session identity
\* the identifier a thread.started line announces ("" for any other line)
AnnouncedID(k) ==
  IF k = "threadStartedA" THEN "A" ELSE IF k = "threadStartedB" THEN "B" ELSE ""

\* the identity after the first n lines of stdout: the identifier of the
\* last thread.started line among them that announces one, and the
\* identity the thread was made with when there is none
RECURSIVE LastAnnounced(_)
LastAnnounced(n) ==
  IF n = 0 THEN seedID
  ELSE IF AnnouncedID(out[n]) # "" THEN AnnouncedID(out[n])
  ELSE LastAnnounced(n - 1)

\* C11: when a thread.started event with a non-empty identifier is handed
\* to the consumer, the identity is already written: while the event waits
\* in the send, and from its receipt on, Thread.ID() is non-empty, and at
\* the send it is that event's identifier with the lock released.
C11_IdentityBeforeSend ==
  /\ (pc = "send" /\ AnnouncedID(pending.kind) # "") =>
       (mu.w = NoTask /\ idPtr = AnnouncedID(pending.kind)
                      /\ idLen = AnnouncedID(pending.kind))
  /\ \A j \in 1..Len(received) :
       AnnouncedID(received[j].kind) # "" => (idPtr # "" /\ idLen # "")

\* a thread made with no identity whose consumer received a thread.started
\* event announcing "A"
C11_Witness ==
  /\ seedID = "" /\ Len(received) >= 1
  /\ received[1].kind = "threadStartedA" /\ idLen = "A"

\* C12 as stated: once the identity is non-empty it never changes.
C12_WrittenOnce == [][idLen # "" => idLen' = idLen]_vars

\* C12: the stream writes the identity for every thread.started event that
\* announces a non-empty identifier: whenever no store is in progress the
\* identity is the identifier of the last such line read, and the one the
\* thread was made with when no such line was read; an empty identifier
\* never changes it.
C12_LastAnnouncedWins ==
  pc \notin {"setID", "setIDUnlock"} =>
    (mu.w = NoTask /\ idPtr = idLen /\ idLen = LastAnnounced(rdIdx))

\* a resumed thread "A" whose process announced "B" and then an empty
\* identifier: the identity is "B"
C12_Witness ==
  /\ seedID = "A" /\ rdIdx = 2 /\ pc = "send"
  /\ out = <<"threadStartedB", "threadStartedEmpty">> /\ idLen = "B"

\* the non-empty identifiers passed to the setID calls made so far
WrittenIDs == {setter[t].val : t \in {u \in Setters : setter[u].pc # "idle"}} \ {""}

\* C13: with NumSetters tasks calling setID and NumGetters tasks calling
\* ID(), every ID() returns a whole identifier that is the initial one or
\* one passed to a setID call; when all setID calls have returned the
\* identity is one of the non-empty identifiers passed, and the initial
\* one when only empty strings were passed.
C13_ConcurrentIdentity ==
  /\ \A g \in Getters : getter[g].pc = "done" =>
       /\ getter[g].ptr = getter[g].len
       /\ getter[g].len \in {seedID} \cup WrittenIDs
  /\ (\A t \in Setters : setter[t].pc = "done") =>
       /\ idPtr = idLen
       /\ idLen \in (IF WrittenIDs = {} THEN {seedID} ELSE WrittenIDs)

\* two setID calls with different identifiers and an empty-string call have
\* happened, and an ID() call returned a written identifier
C13_Witness ==
  /\ seedID = "A"
  /\ \A t \in Setters : setter[t].pc = "done"
  /\ \E t \in Setters : setter[t].val = ""
  /\ \E t \in Setters : setter[t].val = "B"
  /\ \E g \in Getters : getter[g].pc = "done" /\ getter[g].len = "B"
  /\ idLen = "B"

\* --------------------------------------------------------- aggregated turn
\* Run consumed a turn.failed event
ConsumedTurnFailed == \E j \in 1..Len(received) : received[j].kind = "turnFailed"

\* C14: Thread.Run returns a Turn and a nil error exactly when it consumed
\* no turn.failed event and the stream's Wait() returned nil; otherwise it
\* returns a nil Turn and a non-nil error, which is the error Wait()
\* returned when no turn failure was recorded.
C14_TurnOrError ==
  runpc = "done" =>
    /\ (runResult = NilErr) <=> (~ConsumedTurnFailed /\ twRes[RunCaller] = NilErr)
    /\ (runResult = NilErr) <=> ~turn.nil
    /\ ~ConsumedTurnFailed => runResult = twRes[RunCaller]

\* Run consumed a turn.failed event and Wait() returned nil: Run returned
\* a nil Turn and an error
C14_Witness ==
  /\ runpc = "done" /\ ConsumedTurnFailed
  /\ twRes[RunCaller] = NilErr /\ runResult # NilErr /\ turn.nil

\* the line numbers of the item.completed events with an item among the
\* first n events received, in order
RECURSIVE CompletedItems(_)
CompletedItems(n) ==
  IF n = 0 THEN <<>>
  ELSE IF received[n].kind \in {"itemCompletedMessage", "itemCompletedCommand"}
    THEN Append(CompletedItems(n - 1), received[n].idx)
  ELSE CompletedItems(n - 1)

\* the line number of the last item.completed agent message among the
\* first n events received, 0 when there is none
RECURSIVE LastMessage(_)
LastMessage(n) ==
  IF n = 0 THEN 0
  ELSE IF received[n].kind = "itemCompletedMessage" THEN received[n].idx
  ELSE LastMessage(n - 1)

\* C15: the Turn of a successful Run has as Items exactly the items of the
\* item.completed events delivered, in stream order, without the items of
\* item.started events, and as FinalResponse the text of the last agent
\* message among them, empty when there is none.
C15_TurnItems ==
  (runpc = "done" /\ runResult = NilErr) =>
    /\ turn.items = CompletedItems(Len(received))
    /\ turn.finalResponse = LastMessage(Len(received))

\* a successful Run over an item.started line and a completed command
C15_Witness ==
  /\ runpc = "done" /\ runResult = NilErr
  /\ out = <<"itemStarted", "itemCompletedCommand">>
  /\ turn.items = <<2>> /\ turn.finalResponse = 0

\* ------------------------------------------------------ end of the stream
\* C16 as stated: by the time the goroutine is inside the process's Wait()
\* it has closed Events.
C16_ClosedBeforeWait == pc = "waiting" => eventsClosed = 1

\* C16: the goroutine closes Events only after the process's Wait() has
\* returned and the outcome is published: a consumer sees the channel
\* closed only after the process has exited.
C16_ClosedAfterWait ==
  eventsClosed >= 1 =>
    /\ proc = "exited" /\ execOnce = "done" /\ ew[BgCaller] = "ret"
    /\ Len(errCh) = 1 \/ turnOnce = "done"

\* Events is closed and the published outcome has not been taken yet
C16_Witness == eventsClosed = 1 /\ proc = "exited" /\ Len(errCh) = 1

\* the number of outcomes the goroutine has published so far
PublishedCount == Len(errCh) + (IF turnOnce = "done" THEN 1 ELSE 0)

\* C17: Events is closed at most once, by the goroutine at its end after
\* its last send, so that no event is sent on the closed channel; the
\* outcome is published at most once, and exactly once by the time the
\* goroutine has passed its publication.
C17_CloseAndPublishOnce ==
  /\ eventsClosed <= 1
  /\ eventsClosed = 1 <=> pc = "done"
  /\ eventsClosed = 1 => pending = NoEvent
  /\ PublishedCount =
       (IF pc \in {"cleanup", "closeStdout", "closeEvents", "done"} THEN 1 ELSE 0)

\* the goroutine has ended after two sends, with Events closed and the
\* outcome taken by Wait()
C17_Witness ==
  /\ pc = "done" /\ eventsClosed = 1 /\ Len(received) = 2
  /\ turnOnce = "done" /\ errCh = <<>>

\* C18: the outcome published after the process's Wait(): the await error
\* when there is no read-time error; the read-time error when the await
\* error is nil; otherwise the read-time error, still matched through its
\* own chain, with the await error appended as text.
C18_Reconciled ==
  [][(pc = "waiting" /\ pc' = "publish") =>
       /\ runErr = NilErr => runErr' = execWaitErr
       /\ (runErr # NilErr /\ execWaitErr = NilErr) => runErr' = runErr
       /\ (runErr # NilErr /\ execWaitErr # NilErr) =>
            /\ runErr' = [runErr EXCEPT !.extra = execWaitErr.kind]
            /\ runErr'.extra # "nil"]_vars

\* a decode error was joined with the error of a failed process
C18_Witness ==
  /\ pc = "publish" /\ runErr.kind = "parse" /\ runErr.extra = "execfailed"

\* C19: a line that fails to decode ends the stream: it is the last line
\* read, the events of all earlier lines have been delivered in order and
\* no other, nothing is left to send, and the outcome, also as returned by
\* Wait(), is the decode error.
C19_DecodeErrorStops ==
  \A i \in 1..rdIdx : out[i] = "malformed" =>
    /\ i = rdIdx
    /\ pc \notin {"check", "read", "send"} /\ pending = NoEvent
    /\ received = NonBlankEvents(i - 1)
    /\ runErr.kind = "parse"
    /\ \A e \in {errCh[j] : j \in 1..Len(errCh)} : e.kind = "parse"
    /\ tw[RunCaller] = "ret" => twRes[RunCaller].kind = "parse"

\* one event was delivered, the second line failed to decode while a third
\* was never read, and Wait() returned the decode error
C19_Witness ==
  /\ Len(out) >= 2 /\ out[2] = "malformed" /\ Len(received) = 1
  /\ tw[RunCaller] = "ret" /\ twRes[RunCaller].kind = "parse"

\* C20 as stated: a line without a top-level type is never forwarded.
C20_NoTypeNotForwarded ==
  \A j \in 1..Len(received) : received[j].kind # "noType"

\* C20: a line that is a JSON object without a top-level type decodes
\* without error and is forwarded like any other event: no decode error
\* arises from it, and whenever the goroutine is back at the top of its
\* loop every line read so far has been delivered.
C20_NoTypeForwarded ==
  /\ (rdIdx > 0 /\ out[rdIdx] = "noType") => runErr.kind # "parse"
  /\ pc \in {"check", "read"} => received = NonBlankEvents(rdIdx)

\* a line without a type was delivered, and the line after it too
C20_Witness ==
  /\ Len(received) = 2 /\ received[1].kind = "noType"
  /\ received[2].kind = "threadStartedA"

\* ------------------------------------------------------ decoding of lines
\* C22: the item of a line is decoded by its type tag alone: a known tag
\* gives an item of a Go type of its own whose itemType() is the tag,
\* whatever else the payload holds, and an absent or empty tag makes the
\* decoding of the line fail.
C22_ItemDispatch ==
  (codec.step # "none" /\ codec.step # "line" /\ codec.line.item.present) =>
    LET t == codec.line.item.type
        e == codec.event
    IN /\ t \in {"agent_message", "reasoning", "command_execution", "file_change",
                  "mcp_tool_call", "web_search", "todo_list", "error"} =>
            /\ e.err = "nil"
            /\ e.Item.variant \notin {"nil", "UnknownItem"}
            /\ itemType(e.Item) = t
       /\ t \in {"", "<absent>"} => e.err # "nil"

\* a file_change item was decoded into a FileChangeItem
C22_Witness ==
  /\ codec.step = "event" /\ codec.line.item.present
  /\ codec.line.item.type = "file_change"
  /\ codec.event.Item.variant = "FileChangeItem"

\* C29: decoding the JSON encoding of a decoded event gives back the
\* event: the same type and the same populated fields, the item included.
C29_RoundTrip ==
  codec.step = "again" =>
    /\ codec.again.err = "nil"
    /\ codec.again.Type = codec.event.Type
    /\ codec.again.ThreadID = codec.event.ThreadID
    /\ codec.again.Usage = codec.event.Usage
    /\ codec.again.Error = codec.event.Error
    /\ codec.again.Message = codec.event.Message
    /\ codec.again.Item = codec.event.Item

\* C30 as stated: a decoded event holds a field only when it is a field of
\* the event's kind.
C30_OnlyFieldsOfKind ==
  (codec.step = "event" /\ codec.event.err = "nil") =>
    LET e == codec.event
    IN /\ e.ThreadID # "" => e.Type = "thread.started"
       /\ e.Usage # "nil" => e.Type = "turn.completed"
       /\ e.Error # "nil" => e.Type = "turn.failed"
       /\ e.Message # "" => e.Type = "error"
       /\ e.Item.variant # "nil" =>
            e.Type \in {"item.started", "item.updated", "item.completed"}

\* the value of a member of a line as a Go string, and as a Go pointer
MemberString(v) == IF v = "<absent>" THEN "" ELSE v
MemberPointer(v) == IF v = "<absent>" THEN "nil" ELSE v

\* C30: a decoded event holds every recognised member of its line, whatever
\* the kind: the thread identifier, the usage, the failure, the message
\* and the item are those of the line, and are empty exactly when the line
\* does not have them.
C30_FieldsAsInLine ==
  (codec.step = "event" /\ codec.event.err = "nil") =>
    LET e == codec.event
        l == codec.line
    IN /\ e.Type = MemberString(l.type)
       /\ e.ThreadID = MemberString(l.thread_id)
       /\ e.Usage = MemberPointer(l.usage)
       /\ e.Error = MemberPointer(l.error)
       /\ e.Message = MemberString(l.message)
       /\ (e.Item.variant = "nil") <=> ~l.item.present

\* a turn.completed line with a thread_id was decoded into an event that
\* holds the identifier
C30_Witness ==
  /\ codec.step = "event" /\ codec.event.Type = "turn.completed"
  /\ codec.line.thread_id = "A" /\ codec.event.ThreadID = "A"

\* ------------------------------------------------ items of an unknown type
\* the line numbers of the item.completed events with an agent message or
\* with an item of an unknown type among the first n events received
RECURSIVE C21_Items(_)
C21_Items(n) ==
  IF n = 0 THEN <<>>
  ELSE IF received[n].kind \in {"itemCompletedMessage", "itemCompletedUnknown"}
    THEN Append(C21_Items(n - 1), received[n].idx)
  ELSE C21_Items(n - 1)

\* C21: an item whose non-empty type is none of the eight known ones
\* decodes without error into an UnknownItem holding the type string and
\* the payload; the item.completed event that carries it is no decode
\* error, is delivered before the next line is read, and its item is
\* appended to the Items of the Turn.
C21_UnknownItemKept ==
  /\ \A i \in 1..rdIdx : out[i] = "itemCompletedUnknown" =>
       LET l == JSONLine(out[i])
           e == UnmarshalJSON(l)
       IN /\ e.err = "nil" /\ e.Item.variant = "UnknownItem"
          /\ e.Item.ItemType = l.item.type /\ e.Item.Raw = l.item
          /\ i = rdIdx => runErr.kind # "parse"
          /\ i < rdIdx => \E j \in 1..Len(received) : received[j] = Event(i, out[i])
  /\ (runpc = "done" /\ runResult = NilErr) =>
       turn.items = C21_Items(Len(received))

\* a successful Run over an agent message and an item of an unknown type:
\* both are in Items, and the agent message is the final response
C21_Witness ==
  /\ runpc = "done" /\ runResult = NilErr
  /\ out = <<"itemCompletedMessage", "itemCompletedUnknown">>
  /\ turn.items = <<1, 2>> /\ turn.finalResponse = 1

\* ------------------------------------------------ events of an unknown type
\* C23: a line whose top-level type is none of the eight event types is
\* decoded without error and handed to the send, the stream goes on with
\* the next line once it is delivered, and Thread.Run receiving it changes
\* neither the items, the final response, the usage nor a recorded
\* failure, and stays in its loop; a Run that received only such events
\* returns what Wait() returned.
C23_UnknownEventIgnored ==
  [][/\ (rdIdx' # rdIdx /\ out[rdIdx'] = "unknownType") =>
        /\ pc' = "send" /\ pending' = Event(rdIdx', "unknownType")
        /\ runErr' = runErr
     /\ (pending.kind = "unknownType" /\ received' # received) =>
        /\ received' = Append(received, pending) /\ pc' = "check"
        /\ UNCHANGED <<items, finalResponse, usage, turnFailure, runpc>>
     /\ (runpc' = "done" /\ received # <<>>
           /\ \A j \in 1..Len(received) : received[j].kind = "unknownType") =>
        /\ runResult' = twRes'[RunCaller]
        /\ runResult' = NilErr => turn' = MkTurn(<<>>, 0, "nil")]_vars

\* a successful Run over a turn.completed line and a line of an unknown
\* type after it: the usage of the Turn is the one of turn.completed
C23_Witness ==
  /\ runpc = "done" /\ runResult = NilErr
  /\ out = <<"turnCompleted", "unknownType">> /\ Len(received) = 2
  /\ turn.usage = "u1"

\* ------------------------------------------------------ the argument vector
\* the positions of c at which name is followed by v, and the number of
\* positions that hold name
C27_At(c, name, v) == {i \in 1..(Len(c) - 1) : c[i] = name /\ c[i + 1] = v}
C27_Count(c, name) == Cardinality({i \in 1..Len(c) : c[i] = name})
\* the entries of vs that are not empty, in order
RECURSIVE C27_NonEmpty(_)
C27_NonEmpty(vs) ==
  IF vs = <<>> THEN <<>>
  ELSE IF Head(vs) = "" THEN C27_NonEmpty(Tail(vs))
  ELSE <<Head(vs)>> \o C27_NonEmpty(Tail(vs))
\* the values that follow name in c, in order
RECURSIVE C27_Values(_, _)
C27_Values(c, name) ==
  IF Len(c) < 2 THEN <<>>
  ELSE IF Head(c) = name THEN <<c[2]>> \o C27_Values(Tail(Tail(c)), name)
  ELSE C27_Values(Tail(c), name)

\* C27: the argument vector starts with "exec --experimental-json" and
\* holds no empty string; a valued flag appears, once and followed by its
\* value, exactly when its option is not empty; --add-dir and --image
\* carry the non-empty entries in order; --skip-git-repo-check appears
\* exactly when set; the network-access and web-search config entries
\* appear exactly when the toggle is set, with the value true or false
\* it points to; and "resume <id>" are the last two arguments exactly
\* when the thread identifier is not empty.
C27_ArgumentVector ==
  argv.built =>
    LET a == argv.args
        c == argv.commandArgs
        one(name, v) ==
          /\ C27_Count(c, name) = (IF v # "" THEN 1 ELSE 0)
          /\ v # "" => C27_At(c, name, v) # {}
        cfg(key, v) ==
          (v # "") <=> C27_At(c, "--config", key \o "=\"" \o v \o "\"") # {}
        toggle(key, ptr) ==
          /\ C27_At(c, "--config", key \o "=true") # {} <=> (~ptr.nil /\ ptr.val)
          /\ C27_At(c, "--config", key \o "=false") # {} <=> (~ptr.nil /\ ~ptr.val)
    IN /\ SubSeq(c, 1, 2) = <<"exec", "--experimental-json">>
       /\ \A i \in 1..Len(c) : c[i] # ""
       /\ one("--model", a.Model) /\ one("--sandbox", a.SandboxMode)
       /\ one("--cd", a.WorkingDirectory)
       /\ one("--output-schema", a.OutputSchemaFile)
       /\ C27_Values(c, "--add-dir") = C27_NonEmpty(a.AdditionalDirectories)
       /\ C27_Values(c, "--image") = C27_NonEmpty(a.Images)
       /\ C27_Count(c, "--skip-git-repo-check") = (IF a.SkipGitRepoCheck THEN 1 ELSE 0)
       /\ cfg("model_reasoning_effort", a.ModelReasoningEffort)
       /\ cfg("approval_policy", a.ApprovalPolicy)
       /\ toggle("sandbox_workspace_write.network_access", a.NetworkAccessEnabled)
       /\ toggle("features.web_search_request", a.WebSearchEnabled)
       /\ C27_Count(c, "--config") =
            (IF a.ModelReasoningEffort # "" THEN 1 ELSE 0)
            + (IF a.ApprovalPolicy # "" THEN 1 ELSE 0)
            + (IF a.NetworkAccessEnabled.nil THEN 0 ELSE 1)
            + (IF a.WebSearchEnabled.nil THEN 0 ELSE 1)
       /\ C27_Count(c, "resume") = (IF a.ThreadID # "" THEN 1 ELSE 0)
       /\ a.ThreadID # "" => SubSeq(c, Len(c) - 1, Len(c)) = <<"resume", a.ThreadID>>

\* network access is explicitly false, an additional directory and an
\* image are empty, and the thread is resumed: the config entry with
\* false is there, the empty entries are not, and resume comes last
C27_Witness ==
  /\ argv.built
  /\ argv.args.NetworkAccessEnabled = BoolPtr(FALSE)
  /\ argv.args.AdditionalDirectories = <<"", "/d2">>
  /\ argv.args.Images = <<"", "/i1">> /\ argv.args.ThreadID = "A"
  /\ argv.args.Model = "" /\ argv.args.WebSearchEnabled = NilBool
  /\ C27_At(argv.commandArgs, "--config",
             "sandbox_workspace_write.network_access=false") # {}
  /\ argv.commandArgs[Len(argv.commandArgs)] = "A"

\* ------------------------------------------------- the process environment
\* the values a variable can have in the environments considered
C28_Values ==
  {"", "custom_originator", "host_originator", "codex_sdk_go", "http://custom",
   "http://host", "http://override", "custom-key", "host-key", "override-key",
   "/custom/bin", "/usr/bin"}
\* the list has the entry name=value; it has an entry for name
C28_Has(env, name, value) == \E i \in 1..Len(env) : env[i] = name \o "=" \o value
C28_Count(env, name) ==
  Cardinality({i \in 1..Len(env) : \E v \in C28_Values : env[i] = name \o "=" \o v})
\* the value the host environment gives a variable, Absent when none
C28_HostValue(host, name) ==
  IF \E i \in 1..Len(host) : host[i].eq /\ host[i].key = name
    THEN (CHOOSE v \in C28_Values :
            \E i \in 1..Len(host) : host[i].eq /\ host[i].key = name /\ host[i].val = v)
    ELSE Absent
\* the map the list is built from: the custom one alone when supplied
C28_Source(name) ==
  IF ~environ.custom.nil THEN environ.custom.m[name]
  ELSE C28_HostValue(environ.host, name)
\* the list is in the order of the names, one entry a name, and every
\* entry is of a name considered
C28_Sorted(env) ==
  /\ \A i \in 1..Len(env) : \E k \in 1..Len(EnvKeys), v \in C28_Values :
        env[i] = EnvKeys[k] \o "=" \o v
  /\ \A i, j \in 1..Len(env) : i < j =>
        \E ki, kj \in 1..Len(EnvKeys), vi, vj \in C28_Values :
          /\ ki < kj /\ env[i] = EnvKeys[ki] \o "=" \o vi
          /\ env[j] = EnvKeys[kj] \o "=" \o vj
\* what holds of the list apart from the originator variable
C28_Rest(env) ==
  /\ C28_Sorted(env)
  /\ \A v \in C28_Values : C28_Has(env, "PATH", v) <=> C28_Source("PATH") = v
  /\ IF environ.baseURL # ""
       THEN C28_Has(env, "OPENAI_BASE_URL", environ.baseURL)
       ELSE \A v \in C28_Values :
              C28_Has(env, "OPENAI_BASE_URL", v) <=> C28_Source("OPENAI_BASE_URL") = v
  /\ IF environ.apiKey # ""
       THEN C28_Has(env, "CODEX_API_KEY", environ.apiKey)
       ELSE \A v \in C28_Values :
              C28_Has(env, "CODEX_API_KEY", v) <=> C28_Source("CODEX_API_KEY") = v
  /\ C28_Count(env, internalOriginatorEnv) = 1

\* C28 as stated: an originator variable that is present in the map keeps
\* its value, and codex_sdk_go is injected only when it is absent.
C28_OriginatorKeptWhenPresent ==
  environ.built =>
    /\ C28_Rest(environ.env)
    /\ C28_Has(environ.env, internalOriginatorEnv,
               IF C28_Source(internalOriginatorEnv) # Absent
                 THEN C28_Source(internalOriginatorEnv) ELSE goSDKOriginator)

\* C28: the list is sorted and built from the custom map alone when one
\* was supplied and from the host environment otherwise; an originator
\* variable present with a non-empty value keeps it, and codex_sdk_go is
\* injected when the variable is absent or empty; a non-empty base-URL or
\* API-key override replaces the value of OPENAI_BASE_URL or
\* CODEX_API_KEY.
C28_Environment ==
  environ.built =>
    /\ C28_Rest(environ.env)
    /\ C28_Has(environ.env, internalOriginatorEnv,
               IF C28_Source(internalOriginatorEnv) \notin {Absent, ""}
                 THEN C28_Source(internalOriginatorEnv) ELSE goSDKOriginator)

\* a custom map with an empty originator and its own API key, in a host
\* that has an originator, and an API-key override: the list holds
\* codex_sdk_go and the override, and nothing of the host
C28_Witness ==
  /\ environ.built /\ ~environ.custom.nil
  /\ environ.custom.m[internalOriginatorEnv] = ""
  /\ environ.custom.m["CODEX_API_KEY"] = "custom-key"
  /\ environ.custom.m["PATH"] = Absent
  /\ C28_HostValue(environ.host, internalOriginatorEnv) = "host_originator"
  /\ environ.apiKey = "override-key"
  /\ C28_Has(environ.env, internalOriginatorEnv, goSDKOriginator)
  /\ C28_Has(environ.env, "CODEX_API_KEY", "override-key")
  /\ C28_Count(environ.env, "PATH") = 0

\* ------------------------------------------------- failures before the start
\* the errors of createOutputSchemaFile and of normalizeInput
C24_PreludeErrors ==
  {"invalid", "mkdirFailed", "marshalFailed", "writeFailed", "invalid input"}

\* C24: when the schema file cannot be made or the input is invalid, the
\* call has failed with that error without Exec.Run being called: no
\* process, no goroutine and no channel of the call exist, nothing was
\* received, a temp directory that was made is removed, and Run goes
\* from the call straight to returning that error and a nil Turn.
C24_FailsBeforeStart ==
  [][(startpc' = "failed" /\ startErr' \in C24_PreludeErrors) =>
       /\ argv' = argv
       /\ proc' = "notStarted" /\ pc' = "none" /\ out' = <<>>
       /\ errCh' = <<>> /\ eventsClosed' = 0 /\ received' = <<>>
       /\ turnCalls' = 0 /\ execCalls' = 0 /\ cleanups' = 0
       /\ schemaDir' # "present"
       /\ mode = "run" =>
            /\ runpc' \in {"start", "done"}
            /\ runpc' = "done" => (runResult' = StartFailed(startErr') /\ turn'.nil)]_vars

\* the second Run call on a thread made the schema directory and then met
\* an invalid input: the directory is removed and Run returned the error
C24_Witness ==
  /\ mode = "run" /\ turnNo = 2 /\ startpc = "failed"
  /\ startErr = "invalid input" /\ schemaDir = "removed"
  /\ runpc = "done" /\ runResult = StartFailed("invalid input") /\ turn.nil
  /\ proc = "notStarted" /\ argv.built

\* ------------------------------------------------- cleanup of the schema file
\* C25: in a stream whose process was started the goroutine cleans the
\* schema file up at most once, and exactly once by the time it has
\* ended, however the reading ended (end of output, decode error,
\* cancellation); until then a temp directory that was made is there,
\* afterwards it is not; and the cleanup comes only after the goroutine
\* has left its read loop and the process's Wait() has returned to it.
C25_CleanupOnceAfterWait ==
  startpc = "started" =>
    /\ cleanups <= 1
    /\ pc = "done" => cleanups = 1
    /\ cleanups = 0 =>
         schemaDir = (IF argv.args.OutputSchemaFile # "" THEN "present" ELSE "none")
    /\ cleanups = 1 =>
         /\ schemaDir # "present"
         /\ pc \in {"closeStdout", "closeEvents", "done"}
         /\ ew[BgCaller] = "ret" /\ proc = "exited"

\* the stream of a call with a schema ended on a line that is not JSON,
\* and its temp directory is removed
C25_Witness ==
  /\ startpc = "started" /\ pc = "done" /\ runErr.kind = "parse"
  /\ argv.args.OutputSchemaFile # "" /\ schemaDir = "removed" /\ cleanups = 1

\* ----------------------------------------------------- resuming a thread
\* the thread_id of the last thread.started line among the first n lines
\* the goroutine read, "" when there is none
RECURSIVE C26_Announced(_)
C26_Announced(n) ==
  IF n = 0 THEN ""
  ELSE IF out[n] = "threadStartedA" THEN "A"
  ELSE C26_Announced(n - 1)

\* C26: the identity of a thread is the one it was made with by
\* StartThread or ResumeThread until a stream announces one, and changes
\* only to an identity announced; when a call is made after a stream that
\* announced an identity, the thread has the one announced last; it does
\* not change until Exec.Run is called; and Exec.Run is called with it as
\* ThreadID and puts "resume" and the identity as the last two arguments
\* when it is not empty, and no "resume" at all when it is empty.
C26_ResumeLast ==
  [][/\ idLen' # idLen =>
          /\ pc = "setIDUnlock" /\ idLen' = Decoded(pending.kind).ThreadID
          /\ Decoded(pending.kind).Type = "thread.started" /\ idLen' # ""
     /\ (startpc # "schema" /\ startpc' = "schema") =>
          /\ turnNo = 0 => idLen = seedID
          /\ C26_Announced(rdIdx) # "" => idLen = C26_Announced(rdIdx)
     /\ startpc \in {"schema", "normalize", "exec"} => idLen' = idLen
     /\ (startpc = "exec" /\ startpc' # "exec") =>
          LET c == argv'.commandArgs
          IN /\ argv'.args.ThreadID = idLen
             /\ idLen # "" => SubSeq(c, Len(c) - 1, Len(c)) = <<"resume", idLen>>
             /\ idLen = "" => \A i \in 1..Len(c) : c[i] # "resume"]_vars

\* the second turn of a thread made by StartThread whose first stream
\* announced "A" resumes "A"
C26_Witness ==
  /\ seedID = "" /\ turnNo = 2 /\ startpc = "started"
  /\ argv.commandArgs = <<"exec", "--experimental-json", "resume", "A">>

\* ------------------------------------------------------- ExecStream.Close
\* C31: however many tasks call ExecStream.Close(), one after the other
\* or at once, stdout.Close() is called at most once, exactly once as soon
\* as a caller has returned, and every caller that has returned got the
\* same result, the one of that single call.
C31_CloseOnce ==
  /\ closer.calls <= 1
  /\ \A c \in Closers : closer.pc[c] = "ret" =>
       closer.calls = 1 /\ closer.res[c] = closer.err
  /\ \A c, d \in Closers :
       closer.pc[c] = "ret" /\ closer.pc[d] = "ret" => closer.res[c] = closer.res[d]

\* every caller of Close has returned, with the error of closing a pipe
\* that cmd.Wait had closed before
C31_Witness ==
  /\ \A c \in Closers : closer.pc[c] = "ret" /\ closer.res[c] = "file already closed"
  /\ closer.calls = 1

\* --------------------------------------------------------- normalizeInput
\* the parts of the given type, in part order
C32_Of(parts, type) == SelectSeq(parts, LAMBDA q : q.Type = type)
\* the elements joined by a blank line, built from the last one backwards
RECURSIVE C32_Joined(_)
C32_Joined(elems) ==
  IF Len(elems) = 0 THEN ""
  ELSE IF Len(elems) = 1 THEN elems[1]
  ELSE C32_Joined(SubSeq(elems, 1, Len(elems) - 1)) \o "\n\n" \o elems[Len(elems)]
\* a part that normalizeInput rejects
C32_Bad(part) ==
  \/ part.Type = InputLocalImage /\ part.Path = ""
  \/ part.Type \notin {InputText, InputLocalImage}
C32_BadAt(parts) == {i \in 1..Len(parts) : C32_Bad(parts[i])}

\* C32: normalizeInput returns the prompt unchanged and no images for a
\* text-only input; for composed parts without a rejected part, the texts
\* joined by a blank line in part order and the image paths in part order;
\* and when a part has an empty image path, no type or an unsupported type,
\* an ErrInvalidInput naming the first such part, with an empty prompt and
\* no images.
C32_Normalize ==
  norm.done =>
    LET input == norm.input
        parts == input.parts
        texts == C32_Of(parts, InputText)
        paths == C32_Of(parts, InputLocalImage)
    IN /\ parts = <<>> =>
            norm.out = NormResult(input.prompt, <<>>, NoError)
       /\ parts # <<>> /\ C32_BadAt(parts) = {} =>
            /\ norm.out.err = NoError
            /\ norm.out.prompt = C32_Joined([i \in 1..Len(texts) |-> texts[i].Text])
            /\ norm.out.images = [i \in 1..Len(paths) |-> paths[i].Path]
       /\ C32_BadAt(parts) # {} =>
            /\ norm.out.err.Reason # "nil"
            /\ norm.out.err.idx + 1 \in C32_BadAt(parts)
            /\ \A i \in C32_BadAt(parts) : norm.out.err.idx + 1 <= i
            /\ norm.out.prompt = "" /\ norm.out.images = <<>>

\* a text and an image were collected before a part without a path was
\* rejected
C32_Witness ==
  /\ norm.done
  /\ norm.input.parts = <<TextPart("a"), ImagePart("")>>
  /\ norm.out.err.Reason = "local image path must be set" /\ norm.out.prompt = ""

\* ---------------------------------------------------- binary resolution
\* a bundled binary for the host's platform triple exists: the platform
\* is a supported one, the SDK's source directory is known, and a file
\* that is not a directory is at vendor/<triple>/codex/<name>
C33_Supported(host) ==
  /\ host.goos \in {"linux", "android", "darwin", "windows"}
  /\ host.goarch \in {"amd64", "arm64"}
C33_Bundled(host) == C33_Supported(host) /\ host.callerOK /\ host.stat = "file"

\* C33: New resolves the binary in a fixed order: a non-empty path
\* override is taken as it is, whatever the host holds; otherwise the
\* bundled binary of the platform triple when it exists; otherwise the
\* binary on the executable search path; and when none resolves, New
\* returns the error ErrCodexNotFound and no client.
C33_Resolution ==
  resolve.done =>
    LET o == resolve.override
        h == resolve.host
        r == resolve.out
    IN /\ o # "" => r.err = "nil" /\ ~r.client.isNil /\ r.client.exec.path = o
       /\ o = "" /\ C33_Bundled(h) =>
            /\ r.err = "nil" /\ ~r.client.isNil
            /\ r.client.exec.path = Candidate(h)
       /\ o = "" /\ ~C33_Bundled(h) /\ h.lookPath # "" =>
            r.err = "nil" /\ ~r.client.isNil /\ r.client.exec.path = h.lookPath
       /\ o = "" /\ ~C33_Bundled(h) /\ h.lookPath = "" =>
            r.err = ErrCodexNotFound.err /\ r.client.isNil

\* without an override, a host with both a bundled binary and one on the
\* search path resolved to the bundled one
C33_Witness ==
  /\ resolve.done /\ resolve.override = ""
  /\ resolve.host.stat = "file" /\ resolve.host.lookPath = "/usr/bin/codex"
  /\ resolve.out.err = "nil"
  /\ resolve.out.client.exec.path = "sdk/vendor/aarch64-apple-darwin/codex/codex"

\* ------------------------------------------- aggregation after turn.completed
\* the line numbers of the item.completed events among the first n events
\* received
C34_Items(n) ==
  SelectSeq([j \in 1..n |-> received[j].idx],
            LAMBDA i : JSONLine(out[i]).type = "item.completed")
\* the positions among the first n events received of the turn.completed
\* events
C34_Completed(n) == {j \in 1..n : JSONLine(received[j].kind).type = "turn.completed"}
\* the usage member of the last of them, nil when the line has none or
\* no turn.completed event was received
C34_LastUsage(n) ==
  IF C34_Completed(n) = {} THEN "nil"
  ELSE LET last == CHOOSE j \in C34_Completed(n) : \A i \in C34_Completed(n) : i <= j
           u == JSONLine(received[last].kind).usage
       IN IF u = Absent THEN "nil" ELSE u

\* C34: in Thread.Run a turn.completed event does not end the
\* aggregation: Run stays in its loop, every item.completed event received,
\* before or after it, is in the items, and the usage is the one of the
\* last turn.completed event received, nil when there was none; a Run
\* that returns a Turn returns these as Items and Usage.
C34_AggregatesAfterCompleted ==
  /\ runpc \in {"loop", "callwait", "waiting", "done"} =>
       /\ items = C34_Items(Len(received))
       /\ usage = C34_LastUsage(Len(received))
  /\ (runpc \in {"callwait", "waiting", "done"}) => eventsClosed > 0
  /\ (runpc = "done" /\ runResult = NilErr) =>
       /\ turn.items = C34_Items(Len(received))
       /\ turn.usage = C34_LastUsage(Len(received))
       /\ Len(received) = Len(out)

\* a Run that received an agent message after a turn.completed event and
\* returned a Turn with that item and the usage of the event
C34_Witness ==
  /\ runpc = "done" /\ runResult = NilErr
  /\ out = <<"turnCompleted", "itemCompletedMessage">>
  /\ turn.items = <<2>> /\ turn.usage = "u1"

\* a Run over two turn.completed events returned the usage of the second
C34_WitnessLast ==
  /\ runpc = "done" /\ runResult = NilErr
  /\ out = <<"turnCompleted", "turnCompletedLater">>
  /\ turn.usage = "u2"

\* ------------------------------------------------- the unterminated last line
\* C40: a last line that is not blank and has no newline before the end
\* of the output is not dropped: a task that has left its loop without a
\* cancellation and without a decode error on an earlier line has read it;
\* if it decodes, it was handed to the send and, unless the context was
\* cancelled during the send, is the last event received; if it is
\* malformed, the task's error is the decode error; and Events is closed
\* only after that.
C40_LastLineKept ==
  (pc \in {"wait", "waiting", "publish", "cleanup", "closeStdout", "closeEvents", "done"}
     /\ tail \notin {"none", "blank"} /\ proc = "exited")
  => \/ /\ rdIdx = Len(out) + 1
        /\ Decodes(tail) =>
             \/ received # <<>> /\ received[Len(received)] = Event(Len(out) + 1, tail)
             \/ runErr.kind = "canceled"
        /\ ~Decodes(tail) => runErr.kind = "parse"
     \/ /\ rdIdx <= Len(out)
        /\ runErr.kind \in {"canceled", "parse"}

\* Events was closed after the event of a last line without a newline
\* had been received as the second event
C40_Witness ==
  /\ eventsClosed = 1 /\ tail = "known" /\ ~callerCancelled
  /\ Len(out) = 1 /\ Len(received) = 2 /\ received[2] = Event(2, "known")

\* the task ended with the decode error of a malformed last line
C40_WitnessMalformed ==
  /\ pc = "done" /\ tail = "malformed" /\ out = <<"known">>
  /\ Len(received) = 1 /\ turnWaitErr.kind = "parse"

\* ------------------------------------------------ turn.failed in the stream
\* a turn.failed event was received
C35_Seen == \E j \in 1..Len(received) : received[j].kind = "turnFailed"
\* the events of the non-blank ones among the first n lines, in order
C35_Events(n) ==
  SelectSeq([i \in 1..n |-> Event(i, out[i])], LAMBDA e : e.kind # "blank")
\* what the task can publish: the error of its loop (none, the context's
\* or a decode error) reconciled with the result of the process's Wait()
C35_Outcomes == {Reconcile(r, execWaitErr) : r \in {NilErr, Canceled, ParseErr}}

\* C35: in the streamed form a turn.failed event neither stops the stream
\* nor changes how it ends: delivering it takes the task back to the top
\* of its loop with its error and the context untouched; what Wait()
\* returns after it is the loop's own error reconciled with the result of
\* the process's Wait(); and without a cancellation or a decode error the
\* events of all lines, those after turn.failed too, were received in
\* order and Wait() returns the result of the process's Wait().
C35_TurnFailedInBand ==
  [][/\ (pending.kind = "turnFailed" /\ received' # received) =>
          /\ received' = Append(received, pending)
          /\ pc' = "check" /\ runErr' = runErr
          /\ UNCHANGED <<callerCancelled, runCancelled>>
     /\ (tw[RunCaller] # "ret" /\ tw'[RunCaller] = "ret" /\ C35_Seen) =>
          /\ twRes'[RunCaller] \in C35_Outcomes
          /\ twRes'[RunCaller].kind # "turnfailed"
          /\ (~callerCancelled /\ \A i \in 1..rdIdx : out[i] # "malformed") =>
               /\ received = C35_Events(Len(out))
               /\ twRes'[RunCaller] = execWaitErr]_vars

\* the consumer received turn.failed and the event of the line after it,
\* and Wait() returned the error of a process that exited with a failure
C35_Witness ==
  /\ tw[RunCaller] = "ret" /\ twRes[RunCaller].kind = "execfailed"
  /\ received = <<Event(1, "turnFailed"), Event(2, "known")>>

\* ------------------------------------------- Wait() and the pending send
\* the task is past its loop, its process's Wait() and the publication
C36_Stopped == pc \in {"cleanup", "closeStdout", "closeEvents", "done"}

\* C36: StreamedTurn.Wait() returns to a caller only after the task has
\* stopped sending: the task has published its outcome and holds no
\* decoded event. A task blocked in the send of a decoded event leaves
\* the send only when the consumer receives the event or the context is
\* cancelled, so that without either no Wait() returns. And while tasks
\* are blocked in Wait(), the consumer can still receive the event the
\* task is sending.
C36_WaitAfterSending ==
  /\ []((\E c \in TurnCallers : tw[c] = "ret") => (C36_Stopped /\ pending = NoEvent))
  /\ []((pc = "send" /\ mode = "streamed") => ENABLED StreamedRecv)
  /\ [][(pc = "send" /\ pc' # "send") =>
          \/ received' = Append(received, pending)
          \/ CtxDone /\ runErr' = Canceled /\ received' = received]_vars

\* every caller of Wait() is blocked in it while the task is sending the
\* second event, the first one having been received
C36_Witness ==
  /\ \A c \in TurnCallers : tw[c] = "called"
  /\ turnOnce = "running" /\ ~CtxDone
  /\ pc = "send" /\ pending.idx = 2 /\ Len(received) = 1

\* ------------------------------------------- cleanup at the return of Run
\* C37: when Thread.Run has returned from a call that made a schema file
\* and started a process, with a Turn or with an error, the cleanup of the
\* schema file has run and the temp directory is gone.
C37_CleanedUpAtReturn ==
  (startpc = "started" /\ runpc = "done" /\ argv.args.OutputSchemaFile # "") =>
    (cleanups = 1 /\ schemaDir = "removed")

\* the same for the calls that leave the event loop because Events was
\* closed, that is without a turn.failed event
C37_CleanedUpAfterClose ==
  (startpc = "started" /\ runpc = "done" /\ argv.args.OutputSchemaFile # ""
     /\ ~turnFailure) =>
    (cleanups = 1 /\ schemaDir = "removed")

\* Run returned after a turn.failed event while the goroutine, which has
\* published its outcome, has not yet run the cleanup
C37_ReturnedBeforeCleanup ==
  /\ startpc = "started" /\ runpc = "done" /\ turnFailure
  /\ pc = "cleanup" /\ schemaDir = "present" /\ cleanups = 0

\* ---------------------------------------------- a cancellation the task saw
\* C38: a task that leaves its loop at the ctx.Err() check or at the
\* ctx.Done() case of the send does so with the context's error; the
\* outcome it publishes, and Wait() returns, then matches context.Canceled
\* under errors.Is, also when the process's Wait() returned another error,
\* which is appended to it.
C38_CanceledMatches ==
  [][/\ ((pc = "check" /\ pc' = "wait")
           \/ (pc = "send" /\ pc' = "wait" /\ received' = received)) =>
          (CtxDone /\ runErr' = Canceled)
     /\ (pc = "waiting" /\ pc' = "publish" /\ runErr = Canceled) =>
          /\ ErrorsIs(runErr', Canceled)
          /\ (execWaitErr # NilErr) =>
               (runErr' # Canceled /\ runErr'.extra = execWaitErr.kind)
     /\ (pc = "publish" /\ pc' = "cleanup" /\ runErr.kind = "canceled") =>
          (errCh' = <<runErr>> /\ ErrorsIs(runErr, Canceled))
     /\ (turnOnce = "running" /\ turnOnce' = "done" /\ runErr.kind = "canceled") =>
          (turnWaitErr' = runErr /\ ErrorsIs(turnWaitErr', Canceled))]_vars

\* Wait() returned the context's error with the error of the killed
\* process appended, after the task saw the cancellation in its send
C38_Witness ==
  /\ tw[RunCaller] = "ret" /\ twRes[RunCaller].kind = "canceled"
  /\ twRes[RunCaller].extra = "execfailed" /\ ErrorsIs(twRes[RunCaller], Canceled)
  /\ exitCode = KilledCode /\ rdIdx = 1 /\ received = <<>>

\* ------------------------------------------------ publishing without Wait()
\* C39: the task never blocks on publishing its outcome: whenever it has
\* left its loop and the process's Wait() has returned to it, the send on
\* the outcome channel can be made at once, and the task goes on to run the
\* schema cleanup, close stdout, close Events and end, with the outcome
\* left in the channel when no caller has invoked StreamedTurn.Wait().
C39_PublishesAndEnds ==
  /\ [](pc = "publish" => (errCh = <<>> /\ ENABLED BgPublish))
  /\ (pc = "publish") ~>
       (pc = "done" /\ cleanups = 1 /\ stdoutClosed /\ eventsClosed = 1)
  /\ [](pc = "done" /\ turnCalls = 0 => errCh = <<runErr>>)

\* the task has ended and closed Events, its outcome is in the channel,
\* and no caller has invoked Wait()
C39_Witness ==
  /\ pc = "done" /\ eventsClosed = 1 /\ cleanups = 1 /\ stdoutClosed
  /\ turnCalls = 0 /\ \A c \in TurnCallers : tw[c] = "idle"
  /\ Len(errCh) = 1
====
